---- MODULE Spec2Model ----
(***************************************************************************)
(* Model of the background service worker of the Aura Prompt extension     *)
(* (src/src/background.js): promptAPI runs (handlePromptAPI,               *)
(* handleModelDownload, streamResponse), cancelSession, safeSendMessage    *)
(* and the popup connection tracking (onConnect).                          *)
(*                                                                         *)
(* The service worker is single threaded: one action of the model is one   *)
(* turn of the event loop, from the event that resumes a handler up to the *)
(* next await of an external result (provider call, stream chunk, message  *)
(* callback, timer).  Text is a sequence of characters.                    *)
(***************************************************************************)
EXTENDS Integers, Sequences, FiniteSets, TLC

\* ------------------------------------------------------------------ bounds
NumRuns == 2          \* promptAPI requests issued in one behaviour
MaxChunks == 2        \* chunks a provider stream yields before it ends
MaxThrows == 1        \* destroy() calls on one handle that throw
NumCalls == 2         \* getPageContent requests in flight at one time
CacheLimit == 3       \* entries the cache keeps: the 50 of `suggestionCache.size > 50`, scaled
CleanupThreshold == 2 \* the 30 of `suggestionCache.size > 30`, scaled
CleanupBatch == 1     \* the 10 of `slice(0, 10)`, scaled
MaxUnacked == 2       \* heartbeats counted on one port since its last acknowledgement
NumChecks == 3        \* checkAPIAvailability requests in one behaviour
NumAttempts == 3      \* pingContentScript / safeSendMessage promises in one behaviour
NumReplies == 2       \* failed promptAPI requests in one behaviour
ContentLimit == 4     \* the 2000 of `content.length > 2000`, scaled
MaxContent == 6       \* length of the longest cleaned text

Runs == 1..NumRuns
SessionIds == {1, 2}             \* request.sessionId values the callers use
Ports == {"popup"}               \* ports that connect with name 'popup'
\* values a stream can yield as its k-th chunk: the one character k, and for
\* the last chunk also the empty string
ChunkAt(k) == IF k = MaxChunks THEN {<< >>, <<k>>} ELSE {<<k>>}
\* results of the non-streaming session.prompt: a fresh generation, not the
\* text the stream was producing
PromptTexts == {<<2, 1>>}
Null == 0                        \* `let session = null`

Calls == 1..NumCalls
Tabs == {1, 2}                   \* tab ids of the browser
\* A locator is a sequence of tokens: the scheme with its colon, "//", and
\* the rest.  The empty sequence is the empty or missing url.
NoTab == <<"(tab not created)">>
Closed == <<"(tab closed)">>
PageA == <<"https:", "//", "a.example">>
PageB == <<"https:", "//", "b.example">>
Settings == <<"chrome:", "//", "settings">>
Urls == {PageA, PageB, Settings, << >>}    \* what the tabs load

VARIABLES
    hasLanguageModel,   \* "LanguageModel" in self
    activeSessions,     \* Map sessionId -> provider session (handle = run that created it)
    activeConnections,  \* Set of connected popup ports
    pc,                 \* position of each handlePromptAPI run
    sid,                \* sessionId argument of each run
    session,            \* local `session` of handlePromptAPI: Null or the handle
    dlOpen,             \* handleModelDownload's `session` is created and not destroyed
    fullResponse,       \* local `fullResponse` of streamResponse
    response,           \* what sendResponse was called with, per run (<<>> = not yet)
    msgs,               \* streamingResponse messages handed to chrome.runtime.sendMessage, by sessionId
    destroyed,          \* number of destroy() calls on each generation handle
    emitted,            \* chunks the provider stream of each run has yielded
    outcome,            \* how streamResponse ended
    blindSend,          \* chrome.runtime.sendMessage was called while activeConnections was empty
    connSeen,           \* a connection was live at some moment of the run
    cancelledRun,       \* cancelSession returned true on the handle of this run
    cancelledIds,       \* ids cancelled (true) with no registration since
    lastCancel,         \* return value of the latest cancelSession call
    tabUrl,             \* the browser's tabs: url loaded in each tab, NoTab or Closed
    contentScriptStatus,\* Map tabId -> {ready, url}
    suggestionCache,    \* Map contentHash -> suggestions, as the sequence of its entries in insertion order
    call,               \* the getPageContent requests: position and locals of handlePageContentRequest
    availabilityCalls,  \* LanguageModel.availability() calls each handlePromptAPI run has made
    port,               \* the runtime ports: channel state and the heartbeat interval of onConnect
    check,              \* the checkAPIAvailability requests: position and result
    validation,         \* a validateParameters call: arguments and return value
    attempt,            \* the promises of pingContentScript and safeSendMessage
    reply,              \* failed promptAPI requests: the cause and what sendResponse was called with
    extraction,         \* an extractPageContent call of the content script: cleaned text and result
    earlyCancel,        \* cancelSession(id) was invoked while this run, with that id, had not registered yet
    posted              \* contentScriptReady messages a content script has sent and the worker has not received

\* the state of the getPageContent side of the worker
pageVars == <<tabUrl, contentScriptStatus, suggestionCache, call>>

\* the state of the promptAPI side of the worker
promptVars == <<hasLanguageModel, activeSessions, activeConnections, pc, sid,
                session, dlOpen, fullResponse, response, msgs, destroyed, emitted,
                outcome, blindSend, connSeen, cancelledRun, cancelledIds,
                lastCancel, availabilityCalls>>

\* the state of the popup ports, of the availability checks, of parameter
\* validation and of the probe and delivery promises
sideVars == <<port, check, validation, attempt, reply, extraction, earlyCancel, posted>>

vars == <<promptVars, pageVars, sideVars>>

\* ----------------------------------------------------------------- helpers
RECURSIVE Flatten(_)
Flatten(ss) == IF ss = << >> THEN << >> ELSE Head(ss) \o Flatten(Tail(ss))

IsPrefix(a, b) == Len(a) <= Len(b) /\ SubSeq(b, 1, Len(a)) = a

Front(ss) == SubSeq(ss, 1, Len(ss) - 1)

\* Map.set / Map.delete / Map.has on activeSessions
MapSet(m, k, v) == [x \in DOMAIN m \cup {k} |-> IF x = k THEN v ELSE m[x]]
MapDelete(m, k) == [x \in DOMAIN m \ {k} |-> m[x]]
MapHas(m, k) == k \in DOMAIN m

\* the fixed triple of getFallbackSuggestions
FallbackSuggestions == << <<"Summarize this page">>, <<"What are the main points?">>,
                          <<"Explain this in simple terms">> >>

\* sendResponse has not been called
NoResponse == [kind |-> "none", error |-> "none", fallback |-> FALSE,
               reason |-> "none", suggestions |-> << >>, aiGenerated |-> FALSE]

\* a getPageContent request that has not arrived: the locals of
\* handlePageContentRequest, ensureContentScript and generateAISuggestions,
\* and counts of the calls made on its behalf
IdleCall == [pc |-> "idle", tabId |-> 0, url |-> << >>, why |-> "none",
             pings |-> 0, lastPing |-> "none", injections |-> 0,
             injected |-> "none", extracts |-> 0, contentHash |-> 0,
             availabilityCalls |-> 0, sessions |-> 0, destroyed |-> 0,
             evicted |-> {}, served |-> "none", suggestions |-> << >>,
             response |-> NoResponse]

\* The port objects handed to onConnect: two connections of the popup and one
\* of another page of the extension.
AllPorts == Ports \cup {"popup (reopened)", "options"}
PortName(p) == IF p = "options" THEN "options" ELSE "popup"

\* a port nobody has connected yet: no heartbeat interval is set
NewPort == [state |-> "unconnected", heartbeat |-> FALSE, unacked |-> 0,
            sendFailed |-> FALSE]

Checks == 1..NumChecks
\* a checkAPIAvailability request that has not arrived; reported is what the
\* provider showed to the request
IdleCheck == [pc |-> "idle", reported |-> "none", result |-> [pending |-> TRUE]]

\* an optional value: `undefined`, or the value v
Undefined == << >>
Some(v) == <<v>>

\* validateParameters has not been called
IdleValidation ==
    [pc |-> "idle",
     apiParams |-> [temperature |-> [min |-> Undefined, max |-> Undefined],
                    topK |-> [min |-> Undefined, max |-> Undefined]],
     requestedParams |-> [temperature |-> Undefined, topK |-> Undefined],
     validated |-> [temperature |-> Undefined, topK |-> Undefined],
     again |-> [temperature |-> Undefined, topK |-> Undefined]]

Attempts == 1..NumAttempts
\* a promise that has not been made.  timer: the setTimeout of the promise;
\* reply: what the sendMessage callback was called with; late: the callback
\* ran after the timer had fired; resolves: calls of resolve(); verdict: the
\* value the promise settled to.
NoAttempt == [kind |-> "none", tabId |-> 0, timer |-> "none", reply |-> "none",
              late |-> FALSE, resolves |-> 0, verdict |-> "pending"]

Replies == 1..NumReplies
\* a promptAPI request that has not failed
NoReply == [cause |-> "none", success |-> TRUE, raised |-> << >>, requested |-> 0,
            error |-> << >>, originalError |-> << >>, sessionId |-> 0]

\* extractPageContent has not been called
NoExtraction == [pc |-> "idle", cleaned |-> << >>, content |-> << >>]

Init ==
    /\ hasLanguageModel \in BOOLEAN
    /\ activeSessions = << >>
    /\ activeConnections = {}
    /\ pc = [r \in Runs |-> "idle"]
    /\ sid = [r \in Runs |-> 0]
    /\ session = [r \in Runs |-> Null]
    /\ dlOpen = [r \in Runs |-> FALSE]
    /\ fullResponse = [r \in Runs |-> << >>]
    /\ response = [r \in Runs |-> << >>]
    /\ msgs = [s \in SessionIds |-> << >>]
    /\ destroyed = [r \in Runs |-> 0]
    /\ emitted = [r \in Runs |-> << >>]
    /\ outcome = [r \in Runs |-> "none"]
    /\ blindSend = FALSE
    /\ connSeen = [r \in Runs |-> FALSE]
    /\ cancelledRun = [r \in Runs |-> FALSE]
    /\ cancelledIds = {}
    /\ lastCancel = FALSE
    /\ tabUrl = [t \in Tabs |-> NoTab]
    /\ contentScriptStatus = << >>
    /\ suggestionCache = << >>
    /\ call = [q \in Calls |-> IdleCall]
    /\ availabilityCalls = [r \in Runs |-> 0]
    /\ port = [p \in AllPorts |-> NewPort]
    /\ check = [k \in Checks |-> IdleCheck]
    /\ validation = IdleValidation
    /\ attempt = [a \in Attempts |-> NoAttempt]
    /\ reply = [k \in Replies |-> NoReply]
    /\ extraction = NoExtraction
    /\ earlyCancel = [r \in Runs |-> FALSE]
    /\ posted = {}

\* -------------------------------------------------- pieces of the handlers
\* variant: safeSendMessage without its early return on an empty connection set
HasActiveConnections_always(conns) == TRUE

\* safeSendMessage: `if (activeConnections.size === 0) { resolve(false); return; }`
HasActiveConnections(conns) == conns # {}

\* variant: `fullResponse = chunk + fullResponse`
Accumulate_prepend(full, chunk) == chunk \o full

\* streamResponse: `fullResponse += chunk`
Accumulate(full, chunk) == full \o chunk

\* streamResponse: `if (sessionId && !activeSessions.has(sessionId))`; the
\* onMessage handler always passes a non-empty sessionId
SessionCancelled(as, s) == ~MapHas(as, s)

\* variant: safeSendMessage without its timer, the callback never invoked
AfterSend_stuck == "send"

\* streamResponse: the loop goes on to the next chunk once
\* `await safeSendMessage(...)` has resolved, whatever it resolved to
AfterSend == "stream"

\* handlePromptAPI finally: `if (session) { try { session.destroy() } catch ... }`
FinallyDestroy(d, sess) == IF sess # Null THEN [d EXCEPT ![sess] = @ + 1] ELSE d

\* variant: a finally block that leaves the active-session table alone
FinallyRemove_skip(as, s) == as

\* handlePromptAPI finally: `if (sessionId && activeSessions.has(sessionId)) activeSessions.delete(sessionId)`
FinallyRemove(as, s) == IF MapHas(as, s) THEN MapDelete(as, s) ELSE as

\* handlePromptAPI: `if (sessionId) activeSessions.set(sessionId, session)`
Register(as, s, h) == MapSet(as, s, h)

\* variant: cancelSession without `activeSessions.delete(sessionId)`
CancelDelete_keep(as, s) == as

\* cancelSession: `activeSessions.delete(sessionId)` after a destroy() that returned
CancelDelete(as, s) == MapDelete(as, s)

\* variant: a run that goes to LanguageModel.params() without asking for the
\* availability
EntryPoint_noQuery(has) == IF has THEN "params" ELSE "throw"

\* handlePromptAPI: `if (!("LanguageModel" in self)) throw`, else
\* `await LanguageModel.availability()`
EntryPoint(has) == IF has THEN "availability" ELSE "throw"

\* variant: a download that another caller started is waited for as well
HandleModelDownload_wait(a) == "dl_create"

\* handleModelDownload: 'downloadable' creates the monitored session,
\* 'downloading' throws
HandleModelDownload(a) == IF a = "downloadable" THEN "dl_create" ELSE "throw"

\* variant: the downloaderror listener resolves the wait
DownloadSettles_errorResolves(ev) ==
    IF ev \in {"complete", "error"} THEN "resolve" ELSE "reject"

\* handleModelDownload: downloadcomplete resolves the wait; downloaderror and
\* the 5 minute timer reject it
DownloadSettles(ev) == IF ev = "complete" THEN "resolve" ELSE "reject"

\* responses of the promptAPI message handler
Success(text) == [success |-> TRUE, response |-> text, originalError |-> "none"]
Failure(err) == [success |-> FALSE, response |-> << >>, originalError |-> err]

\* variant: a failure of the fallback call is swallowed
FallbackResult_swallow(ok, text) == Success(IF ok THEN text ELSE << >>)

\* streamResponse catch: `return await session.prompt(prompt)`, or
\* `throw fallbackError`
FallbackResult(ok, text) == IF ok THEN Success(text) ELSE Failure("prompt_failed")

\* session ids the requests so far have carried
UsedIds == {sid[r] : r \in {q \in Runs : pc[q] # "idle"}}

Running(r) == pc[r] \notin {"idle", "done"}

\* The end of a run: handlePromptAPI's finally block, then the promise
\* settles and the onMessage handler calls sendResponse (all in one turn);
\* streamResponse's local fullResponse ceases to exist.
Finish(r, s, resp, how) ==
    /\ pc' = [pc EXCEPT ![r] = "done"]
    /\ destroyed' = FinallyDestroy(destroyed, session[r])
    /\ activeSessions' = FinallyRemove(activeSessions, s)
    /\ response' = [response EXCEPT ![r] = resp]
    /\ outcome' = [outcome EXCEPT ![r] = how]
    /\ fullResponse' = [fullResponse EXCEPT ![r] = << >>]

\* ----------------------------------------------------------------- actions
\* onMessage 'promptAPI': handlePromptAPI starts; runs are numbered in the
\* order of their requests
Request(s) ==
    \E r \in Runs :
        /\ pc[r] = "idle"
        /\ \A q \in Runs : q < r => pc[q] # "idle"
        \* ids are opaque: a request reuses an id or takes the next unused one
        /\ s \in UsedIds \cup {Cardinality(UsedIds) + 1}
        /\ sid' = [sid EXCEPT ![r] = s]
        /\ connSeen' = [connSeen EXCEPT ![r] = activeConnections # {}]
        /\ IF EntryPoint(hasLanguageModel) = "throw"
           THEN Finish(r, s, Failure("api_not_available"), "failed")
           ELSE /\ pc' = [pc EXCEPT ![r] = EntryPoint(hasLanguageModel)]
                /\ UNCHANGED <<destroyed, activeSessions, response, outcome, fullResponse>>
        /\ availabilityCalls' = [availabilityCalls EXCEPT ![r] =
              IF EntryPoint(hasLanguageModel) = "availability" THEN 1 ELSE 0]
        /\ UNCHANGED <<pageVars, sideVars, hasLanguageModel, activeConnections, session, dlOpen,
                       msgs, emitted, blindSend, cancelledRun,
                       cancelledIds, lastCancel>>

\* `await LanguageModel.availability()` settles
Availability(r, a) ==
    /\ pc[r] = "availability"
    /\ CASE a = "available" ->
              /\ pc' = [pc EXCEPT ![r] = "params"]
              /\ UNCHANGED <<destroyed, activeSessions, response, outcome, fullResponse>>
         [] a \in {"downloadable", "downloading"} ->
              IF HandleModelDownload(a) = "throw"
              THEN Finish(r, sid[r], Failure("model_downloading"), "failed")
              ELSE /\ pc' = [pc EXCEPT ![r] = HandleModelDownload(a)]
                   /\ UNCHANGED <<destroyed, activeSessions, response, outcome, fullResponse>>
         [] a = "unavailable" ->
              Finish(r, sid[r], Failure("model_not_available"), "failed")
         [] a = "throws" ->
              Finish(r, sid[r], Failure("availability_error"), "failed")
    /\ UNCHANGED <<pageVars, sideVars, availabilityCalls, hasLanguageModel, activeConnections, sid, session, dlOpen,
                   msgs, emitted, blindSend, connSeen, cancelledRun,
                   cancelledIds, lastCancel>>

\* handleModelDownload: `await LanguageModel.create({monitor})` settles
DownloadCreate(r, ok) ==
    /\ pc[r] = "dl_create"
    /\ IF ok
       THEN /\ pc' = [pc EXCEPT ![r] = "dl_wait"]
            /\ dlOpen' = [dlOpen EXCEPT ![r] = TRUE]
            /\ UNCHANGED <<destroyed, activeSessions, response, outcome, fullResponse>>
       ELSE /\ Finish(r, sid[r], Failure("download_failed"), "failed")
            /\ UNCHANGED dlOpen
    /\ UNCHANGED <<pageVars, sideVars, availabilityCalls, hasLanguageModel, activeConnections, sid, session, msgs, emitted, blindSend, connSeen, cancelledRun, cancelledIds,
                   lastCancel>>

\* handleModelDownload: a downloadprogress event; the listener calls
\* safeSendMessage, which calls chrome.runtime.sendMessage or skips
DownloadProgress(r) ==
    /\ pc[r] \in {"dl_create", "dl_wait"}
    /\ IF HasActiveConnections(activeConnections)
       THEN \* chrome.runtime.sendMessage(downloadProgress)
            blindSend' = (blindSend \/ activeConnections = {})
       ELSE UNCHANGED blindSend
    /\ UNCHANGED <<pageVars, sideVars, availabilityCalls, hasLanguageModel, activeSessions, activeConnections, pc, sid,
                   session, dlOpen, fullResponse, response, msgs, destroyed,
                   emitted, outcome, connSeen, cancelledRun, cancelledIds,
                   lastCancel>>

\* handleModelDownload: downloadcomplete, downloaderror or the 5 minute timer
DownloadEnd(r, ev) ==
    /\ pc[r] = "dl_wait"
    /\ IF DownloadSettles(ev) = "resolve"
       THEN \* session.destroy()
            /\ dlOpen' = [dlOpen EXCEPT ![r] = FALSE]
            /\ pc' = [pc EXCEPT ![r] = "params"]
            /\ UNCHANGED <<destroyed, activeSessions, response, outcome, fullResponse>>
       ELSE /\ Finish(r, sid[r], Failure("download_failed"), "failed")
            /\ UNCHANGED dlOpen
    /\ UNCHANGED <<pageVars, sideVars, availabilityCalls, hasLanguageModel, activeConnections, sid, session, msgs, emitted, blindSend, connSeen, cancelledRun, cancelledIds,
                   lastCancel>>

\* `await LanguageModel.params()` settles; validateParameters; LanguageModel.create is called
Params(r, ok) ==
    /\ pc[r] = "params"
    /\ IF ok
       THEN /\ pc' = [pc EXCEPT ![r] = "create"]
            /\ UNCHANGED <<destroyed, activeSessions, response, outcome, fullResponse>>
       ELSE Finish(r, sid[r], Failure("params_error"), "failed")
    /\ UNCHANGED <<pageVars, sideVars, availabilityCalls, hasLanguageModel, activeConnections, sid, session, dlOpen,
                   msgs, emitted, blindSend, connSeen, cancelledRun,
                   cancelledIds, lastCancel>>

\* `session = await LanguageModel.create(validatedParams)` settles; on success
\* the session is registered and streamResponse calls session.promptStreaming,
\* which returns a stream (starts) or throws; a throw is caught and
\* session.prompt is called instead
CreateSession(r, ok, starts) ==
    /\ pc[r] = "create"
    /\ IF ok
       THEN /\ session' = [session EXCEPT ![r] = r]
            /\ activeSessions' = Register(activeSessions, sid[r], r)
            /\ cancelledIds' = cancelledIds \ {sid[r]}
            /\ pc' = [pc EXCEPT ![r] = IF starts THEN "stream" ELSE "fallback"]
            /\ UNCHANGED <<destroyed, response, outcome, fullResponse>>
       ELSE /\ Finish(r, sid[r], Failure("create_failed"), "failed")
            /\ UNCHANGED <<session, cancelledIds>>
    /\ UNCHANGED <<pageVars, sideVars, availabilityCalls, hasLanguageModel, activeConnections, sid, dlOpen, msgs, emitted, blindSend, connSeen, cancelledRun, lastCancel>>

\* streamResponse: the stream yields chunk c; one iteration of the for-await
\* body up to the next await
StreamChunk(r, c) ==
    /\ pc[r] = "stream"
    /\ Len(emitted[r]) < MaxChunks
    /\ c \in ChunkAt(Len(emitted[r]) + 1)
    /\ emitted' = [emitted EXCEPT ![r] = Append(@, c)]
    /\ IF SessionCancelled(activeSessions, sid[r])
       THEN \* break; return fullResponse
            /\ Finish(r, sid[r], Success(fullResponse[r]), "cancelled")
            /\ UNCHANGED <<msgs, blindSend>>
       ELSE /\ fullResponse' = [fullResponse EXCEPT ![r] = Accumulate(@, c)]
            /\ UNCHANGED <<destroyed, activeSessions, response, outcome>>
            /\ IF activeConnections = {}
               THEN \* continue
                    /\ UNCHANGED <<pc, msgs, blindSend>>
               ELSE IF HasActiveConnections(activeConnections)
                    THEN \* chrome.runtime.sendMessage(streamingResponse)
                         /\ msgs' = [msgs EXCEPT ![sid[r]] = Append(@,
                                [run |-> r, chunk |-> c,
                                 fullResponse |-> fullResponse'[r],
                                 upto |-> Len(emitted'[r])])]
                         /\ blindSend' = (blindSend \/ activeConnections = {})
                         /\ pc' = [pc EXCEPT ![r] = "send"]
                    ELSE \* safeSendMessage resolves false without sending
                         /\ UNCHANGED <<pc, msgs, blindSend>>
    /\ UNCHANGED <<pageVars, sideVars, availabilityCalls, hasLanguageModel, activeConnections, sid, session, dlOpen,
                   connSeen, cancelledRun, cancelledIds, lastCancel>>

\* safeSendMessage resolves: the sendMessage callback ran (with or without
\* lastError) or the 5 s timer fired; messageSent is only logged
SendSettled(r) ==
    /\ pc[r] = "send"
    /\ pc' = [pc EXCEPT ![r] = AfterSend]
    /\ UNCHANGED <<pageVars, sideVars, availabilityCalls, hasLanguageModel, activeSessions, activeConnections, sid,
                   session, dlOpen, fullResponse, response, msgs, destroyed,
                   emitted, outcome, blindSend, connSeen, cancelledRun,
                   cancelledIds, lastCancel>>

\* streamResponse: the stream is exhausted; return fullResponse
StreamEnd(r) ==
    /\ pc[r] = "stream"
    /\ Finish(r, sid[r], Success(fullResponse[r]), "completed")
    /\ UNCHANGED <<pageVars, sideVars, availabilityCalls, hasLanguageModel, activeConnections, sid, session, dlOpen,
                   msgs, emitted, blindSend, connSeen, cancelledRun,
                   cancelledIds, lastCancel>>

\* streamResponse: the iteration throws; catch calls session.prompt(prompt)
StreamError(r) ==
    /\ pc[r] = "stream"
    /\ pc' = [pc EXCEPT ![r] = "fallback"]
    /\ UNCHANGED <<pageVars, sideVars, availabilityCalls, hasLanguageModel, activeSessions, activeConnections, sid,
                   session, dlOpen, fullResponse, response, msgs, destroyed,
                   emitted, outcome, blindSend, connSeen, cancelledRun,
                   cancelledIds, lastCancel>>

\* streamResponse: `await session.prompt(prompt)` settles
FallbackPrompt(r, ok, text) ==
    /\ pc[r] = "fallback"
    /\ LET result == FallbackResult(ok, text)
       IN  Finish(r, sid[r], result, IF result.success THEN "fallback" ELSE "failed")
    /\ UNCHANGED <<pageVars, sideVars, availabilityCalls, hasLanguageModel, activeConnections, sid, session, dlOpen,
                   msgs, emitted, blindSend, connSeen, cancelledRun,
                   cancelledIds, lastCancel>>

\* the positions of handlePromptAPI before `activeSessions.set(sessionId, session)`
PreRegistration == {"availability", "dl_create", "dl_wait", "params", "create"}

\* cancelSession(s): the body of the function
CancelBody(s, throws) ==
    /\ IF MapHas(activeSessions, s)
       THEN /\ throws => destroyed[activeSessions[s]] < MaxThrows
            /\ destroyed' = [destroyed EXCEPT ![activeSessions[s]] = @ + 1]
            /\ IF throws
               THEN /\ lastCancel' = FALSE
                    /\ UNCHANGED <<activeSessions, cancelledRun, cancelledIds>>
               ELSE /\ activeSessions' = CancelDelete(activeSessions, s)
                    /\ lastCancel' = TRUE
                    /\ cancelledRun' = [cancelledRun EXCEPT ![activeSessions[s]] = TRUE]
                    /\ cancelledIds' = cancelledIds \cup {s}
       ELSE /\ throws = FALSE
            /\ lastCancel' = FALSE
            /\ UNCHANGED <<activeSessions, destroyed, cancelledRun, cancelledIds>>
    /\ UNCHANGED <<pageVars, port, check, validation, attempt, reply, extraction, posted,
                   availabilityCalls, hasLanguageModel, activeConnections, pc, sid, session, dlOpen,
                   fullResponse, response, msgs, emitted, outcome, blindSend,
                   connSeen>>

\* onMessage 'cancelSession': cancelSession(s); destroy() returns or throws
CancelSession(s, throws) == CancelBody(s, throws) /\ UNCHANGED earlyCancel

\* the same handler with the history of its early calls kept: the runs that
\* carry id s and have not registered when cancelSession(s) is invoked
CancelObserved(s, throws) ==
    /\ CancelBody(s, throws)
    /\ earlyCancel' = [r \in Runs |->
          earlyCancel[r] \/ (sid[r] = s /\ pc[r] \in PreRegistration)]

\* onConnect with port.name === 'popup'
OnConnect(p) ==
    /\ p \notin activeConnections
    /\ activeConnections' = activeConnections \cup {p}
    /\ connSeen' = [r \in Runs |-> connSeen[r] \/ Running(r)]
    /\ UNCHANGED <<pageVars, sideVars, availabilityCalls, hasLanguageModel, activeSessions, pc, sid, session, dlOpen,
                   fullResponse, response, msgs, destroyed, emitted, outcome,
                   blindSend, cancelledRun, cancelledIds, lastCancel>>

\* port.onDisconnect, or a heartbeat postMessage that throws
OnDisconnect(p) ==
    /\ p \in activeConnections
    /\ activeConnections' = activeConnections \ {p}
    /\ UNCHANGED <<pageVars, sideVars, availabilityCalls, hasLanguageModel, activeSessions, pc, sid, session, dlOpen,
                   fullResponse, response, msgs, destroyed, emitted, outcome,
                   blindSend, connSeen, cancelledRun, cancelledIds, lastCancel>>

AllChunks == UNION {ChunkAt(k) : k \in 1..MaxChunks}
Availabilities == {"available", "downloadable", "downloading", "unavailable", "throws"}
DownloadEvents == {"complete", "error", "timeout"}

\* the steps of run r that an external result (provider, callback, timer) resumes
RunStep(r) ==
    \/ \E a \in Availabilities : Availability(r, a)
    \/ \E ok \in BOOLEAN : DownloadCreate(r, ok)
    \/ \E ev \in DownloadEvents : DownloadEnd(r, ev)
    \/ \E ok \in BOOLEAN : Params(r, ok)
    \/ \E ok, starts \in BOOLEAN : CreateSession(r, ok, starts)
    \/ \E c \in AllChunks : StreamChunk(r, c)
    \/ SendSettled(r)
    \/ StreamEnd(r)
    \/ StreamError(r)
    \/ \E ok \in BOOLEAN, text \in PromptTexts : FallbackPrompt(r, ok, text)

Next ==
    \/ \E s \in SessionIds : Request(s)
    \/ \E r \in Runs, a \in Availabilities : Availability(r, a)
    \/ \E r \in Runs, ok \in BOOLEAN : DownloadCreate(r, ok)
    \/ \E r \in Runs : DownloadProgress(r)
    \/ \E r \in Runs, ev \in DownloadEvents : DownloadEnd(r, ev)
    \/ \E r \in Runs, ok \in BOOLEAN : Params(r, ok)
    \/ \E r \in Runs, ok, starts \in BOOLEAN : CreateSession(r, ok, starts)
    \/ \E r \in Runs, c \in AllChunks : StreamChunk(r, c)
    \/ \E r \in Runs : SendSettled(r)
    \/ \E r \in Runs : StreamEnd(r)
    \/ \E r \in Runs : StreamError(r)
    \/ \E r \in Runs, ok \in BOOLEAN, text \in PromptTexts : FallbackPrompt(r, ok, text)
    \/ \E s \in SessionIds, throws \in BOOLEAN : CancelSession(s, throws)
    \/ \E p \in Ports : OnConnect(p)
    \/ \E p \in Ports : OnDisconnect(p)

Spec == Init /\ [][Next]_vars

\* every pending provider call, message callback and timer of a run settles
FairSpec == Spec /\ \A r \in Runs : WF_vars(RunStep(r))

TypeOK ==
    /\ DOMAIN activeSessions \subseteq SessionIds
    /\ \A s \in DOMAIN activeSessions : activeSessions[s] \in Runs
    /\ activeConnections \subseteq AllPorts

\* ------------------------------------------- getPageContent: pure functions
\* restrictedUrlPatterns: each pattern is anchored at the start of the url
RestrictedUrlPatterns ==
    {<<"chrome:", "//">>, <<"chrome-extension:", "//">>, <<"moz-extension:", "//">>,
     <<"edge-extension:", "//">>, <<"file:", "//">>, <<"about:">>, <<"data:">>,
     <<"blob:">>}

\* variant: only the browser's own scheme is refused
IsRestrictedUrl_chromeOnly(url) == IsPrefix(<<"chrome:", "//">>, url)

\* isRestrictedUrl: `if (!url) return true; return patterns.some(p => p.test(url))`
IsRestrictedUrl(url) ==
    url = << >> \/ \E p \in RestrictedUrlPatterns : IsPrefix(p, url)

\* simpleHash: hash = ((hash << 5) - hash) + charCode, kept to 32 bits; for the
\* texts of the model the value stays far below 2^31, where `hash & hash`
\* changes nothing
RECURSIVE SimpleHashFrom(_, _)
SimpleHashFrom(hash, str) ==
    IF str = << >> THEN hash
    ELSE SimpleHashFrom(((hash * 32) - hash) + Head(str), Tail(str))

SimpleHash(str) == SimpleHashFrom(0, str)

\* What extractContent answers: content and title as sequences of character
\* codes.  The third and the fourth differ and give the same content + title.
Pages ==
    {[content |-> <<97>>, title |-> <<120>>],
     [content |-> <<98>>, title |-> <<120>>],
     [content |-> <<97, 98>>, title |-> <<99>>],
     [content |-> <<97>>, title |-> <<98, 99>>],
     [content |-> <<99>>, title |-> <<121>>]}

\* A model response is a sequence of lines.  A line starts with an ordinal
\* marker ("1."), or with something else, or holds only white space; body is
\* what follows the marker, as tokens: "sp" white space, "q" a quote, a word.
Ord(body) == [kind |-> "ordinal", body |-> body]
Other(body) == [kind |-> "other", body |-> body]
BlankLine == [kind |-> "blank", body |-> <<"sp">>]

Numbered2 == <<Ord(<<"sp", "one">>), Ord(<<"sp", "two">>)>>
Numbered3 == Numbered2 \o <<Ord(<<"sp", "three">>)>>
Numbered5 == Numbered3 \o <<Ord(<<"sp", "four">>), Ord(<<"sp", "five">>)>>
Mixed == <<Other(<<"Here", "sp", "you", "sp", "go">>), Ord(<<"sp", "q", "uno", "q">>),
           BlankLine, Other(<<"sp", "2.", "sp", "indented">>), Ord(<<"dos", "sp">>),
           Ord(<<"sp", "q", "tres">>)>>
ProseOnly == <<Other(<<"No", "sp", "list">>)>>
ModelTexts == {Numbered2, Numbered3, Numbered5, Mixed, ProseOnly}

\* String.prototype.trim
RECURSIVE TrimStart(_)
TrimStart(b) == IF b # << >> /\ Head(b) = "sp" THEN TrimStart(Tail(b)) ELSE b
RECURSIVE TrimEnd(_)
TrimEnd(b) == IF b # << >> /\ b[Len(b)] = "sp" THEN TrimEnd(Front(b)) ELSE b
Trim(b) == TrimEnd(TrimStart(b))

\* suggestion.replace(/^["']|["']$/g, ''): one quote off each end
StripQuotes(b) ==
    LET b1 == IF b # << >> /\ Head(b) = "q" THEN Tail(b) ELSE b
    IN  IF b1 # << >> /\ b1[Len(b1)] = "q" THEN Front(b1) ELSE b1

\* `line.trim()` is empty: no ordinal marker and nothing but white space
LineIsBlank(line) == line.kind # "ordinal" /\ Trim(line.body) = << >>

\* line.match(/^\d+\.\s*(.+)$/) with a non-empty group
MatchesOrdinal(line) == line.kind = "ordinal" /\ line.body # << >>

\* variant: the loop without `if (suggestions.length >= 3) break`
RECURSIVE ParseLoop_noBreak(_, _)
ParseLoop_noBreak(lines, suggestions) ==
    IF lines = << >> THEN suggestions
    ELSE IF MatchesOrdinal(Head(lines))
         THEN ParseLoop_noBreak(Tail(lines),
                   Append(suggestions, StripQuotes(Trim(Head(lines).body))))
         ELSE ParseLoop_noBreak(Tail(lines), suggestions)

\* parseAISuggestions: the for loop over the lines
RECURSIVE ParseLoop(_, _)
ParseLoop(lines, suggestions) ==
    IF lines = << >> THEN suggestions
    ELSE IF MatchesOrdinal(Head(lines))
         THEN LET pushed == Append(suggestions, StripQuotes(Trim(Head(lines).body)))
              IN  IF Len(pushed) >= 3 THEN pushed ELSE ParseLoop(Tail(lines), pushed)
         ELSE ParseLoop(Tail(lines), suggestions)

\* parseAISuggestions: split, drop the lines that are empty once trimmed, loop
ParseAISuggestions(text) ==
    ParseLoop(SelectSeq(text, LAMBDA line : ~LineIsBlank(line)), << >>)

\* variant: `if (suggestions.length <= 3)`
HasThree_atMost(suggestions) == Len(suggestions) <= 3

\* generateAISuggestions: `if (suggestions.length === 3)`
HasThree(suggestions) == Len(suggestions) = 3

\* suggestionCache: Map.has, Map.get, Map.keys
CacheKeys(c) == [i \in 1..Len(c) |-> c[i].key]
CacheHas(c, k) == \E i \in 1..Len(c) : c[i].key = k
CacheGet(c, k) == c[CHOOSE i \in 1..Len(c) : c[i].key = k].value

\* Map.set: a key already present keeps its place and takes the new value
CacheSet(c, k, v) ==
    IF CacheHas(c, k)
    THEN [i \in 1..Len(c) |-> IF c[i].key = k THEN [key |-> k, value |-> v] ELSE c[i]]
    ELSE Append(c, [key |-> k, value |-> v])

\* variant: the size test is off by one, `size > 51`
CacheEvict_late(c) == IF Len(c) > CacheLimit + 1 THEN Tail(c) ELSE c

\* variant: the newest entry is given up instead of the oldest
CacheEvict_newest(c) == IF Len(c) > CacheLimit THEN Front(c) ELSE c

\* generateAISuggestions: `if (suggestionCache.size > 50) delete(keys().next().value)`
CacheEvict(c) == IF Len(c) > CacheLimit THEN Tail(c) ELSE c

\* variant: a cleanup that empties the cache
CacheCleanup_clear(c) == IF Len(c) > CleanupThreshold THEN << >> ELSE c

\* variant: the cleanup gives up the newest entries
CacheCleanup_newest(c) ==
    IF Len(c) > CleanupThreshold
    THEN SubSeq(c, 1, Len(c) - (IF CleanupBatch < Len(c) THEN CleanupBatch ELSE Len(c)))
    ELSE c

\* the cleanup timer: `if (size > 30) keys.slice(0, 10).forEach(delete)`
CacheCleanup(c) ==
    IF Len(c) > CleanupThreshold
    THEN SubSeq(c, (IF CleanupBatch < Len(c) THEN CleanupBatch ELSE Len(c)) + 1, Len(c))
    ELSE c

\* -------------------------------------------- getPageContent: the responses
\* getFallbackPageInfo: chrome.tabs.get resolved, or it rejected
GetFallbackPageInfo(ok) ==
    IF ok
    THEN [kind |-> "fallback", error |-> "none", fallback |-> TRUE,
          reason |-> "Content script unavailable on this page type",
          suggestions |-> FallbackSuggestions, aiGenerated |-> FALSE]
    ELSE [kind |-> "error", error |-> "Failed to get page information",
          fallback |-> TRUE, reason |-> "none", suggestions |-> << >>,
          aiGenerated |-> FALSE]

\* sendResponse({error: ...})
ErrorResponse(err) ==
    [kind |-> "error", error |-> err, fallback |-> FALSE, reason |-> "none",
     suggestions |-> << >>, aiGenerated |-> FALSE]

\* sendResponse({...response, suggestions, aiGenerated: true})
EnhancedResponse(suggestions) ==
    [kind |-> "content", error |-> "none", fallback |-> FALSE, reason |-> "none",
     suggestions |-> suggestions, aiGenerated |-> TRUE]

\* sendResponse is called and the handler ends
Answer(c, resp) == [c EXCEPT !.pc = "done", !.response = resp]

\* generateAISuggestions returns getFallbackSuggestions() and the
\* extractContent callback sends the enhanced response
ReturnFallback(c) ==
    Answer([c EXCEPT !.served = "fallback", !.suggestions = FallbackSuggestions],
           EnhancedResponse(FallbackSuggestions))

\* the tab exists; a content script can run in it
TabOpen(t) == t \in Tabs /\ tabUrl[t] \notin {NoTab, Closed}
Injectable(t) == TabOpen(t) /\ ~IsRestrictedUrl(tabUrl[t])

\* ensureContentScript: its own check of the url, before the first ping
EnsureEntry(url) == IF IsRestrictedUrl(url) THEN "return_false" ELSE "ping"

\* variant: a lookup that never finds the key
CacheHit_never(c, k) == FALSE

\* generateAISuggestions: `if (suggestionCache.has(contentHash))`
CacheHit(c, k) == CacheHas(c, k)

\* variant: the listeners leave contentScriptStatus alone
StatusInvalidate_keep(m, t) == m

\* tabs.onRemoved / tabs.onUpdated: `if (has(tabId)) contentScriptStatus.delete(tabId)`
StatusInvalidate(m, t) == IF MapHas(m, t) THEN MapDelete(m, t) ELSE m

\* variant: a failed injection is followed by the second ping all the same
AfterInject_pingAnyway(ok) == "settle"

\* variant: a rejected injection is awaited again
AfterInject_retry(ok) == IF ok THEN "settle" ELSE "inject"

\* ensureContentScript: executeScript resolved (wait, then ping again) or
\* rejected (catch: return false)
AfterInject(ok) == IF ok THEN "settle" ELSE "fallbackInfo"

\* --------------------------------------------- getPageContent: the actions
\* a tab is created and loads url u
TabOpened(t, u) ==
    /\ tabUrl[t] = NoTab
    /\ tabUrl' = [tabUrl EXCEPT ![t] = u]
    /\ UNCHANGED <<promptVars, sideVars, contentScriptStatus, suggestionCache, call>>

\* tabs.onUpdated: the tab went to url u (changeInfo.url), or something else
\* about it changed (u is the url it has)
TabUpdated(t, u) ==
    /\ TabOpen(t)
    /\ u # << >>
    /\ tabUrl' = [tabUrl EXCEPT ![t] = u]
    /\ contentScriptStatus' =
          IF u # tabUrl[t] THEN StatusInvalidate(contentScriptStatus, t)
          ELSE contentScriptStatus
    /\ UNCHANGED <<promptVars, sideVars, suggestionCache, call>>

\* tabs.onRemoved
TabRemoved(t) ==
    /\ TabOpen(t)
    /\ tabUrl' = [tabUrl EXCEPT ![t] = Closed]
    /\ contentScriptStatus' = StatusInvalidate(contentScriptStatus, t)
    /\ UNCHANGED <<promptVars, sideVars, suggestionCache, call>>

\* content.js initializeContentScript: the content script of the page loaded
\* in tab t sends {action: 'contentScriptReady', url: window.location.href}
ContentScriptInit(t) ==
    /\ Injectable(t)
    /\ posted' = posted \cup {[tab |-> t, url |-> tabUrl[t]]}
    /\ UNCHANGED <<promptVars, pageVars, port, check, validation, attempt, reply,
                   extraction, earlyCancel>>

\* onMessage 'contentScriptReady' with sender.tab.id = t and request.url = u:
\* a message sent earlier and still in flight, or the one the page now
\* loaded sends and the worker receives with no tab event in between
ContentScriptReady(t, u) ==
    /\ \/ [tab |-> t, url |-> u] \in posted
       \/ Injectable(t) /\ u = tabUrl[t]
    /\ posted' = posted \ {[tab |-> t, url |-> u]}
    /\ contentScriptStatus' =
          MapSet(contentScriptStatus, t, [ready |-> TRUE, url |-> u])
    /\ UNCHANGED <<promptVars, port, check, validation, attempt, reply, extraction,
                   earlyCancel, tabUrl, suggestionCache, call>>

\* onMessage 'getPageContent': handlePageContentRequest calls chrome.tabs.query;
\* a request takes the lowest slot that holds no request in flight
PageRequest(q) ==
    /\ call[q].pc \in {"idle", "done"}
    /\ \A o \in Calls : o < q => call[o].pc \notin {"idle", "done"}
    /\ call' = [call EXCEPT ![q] = [IdleCall EXCEPT !.pc = "query"]]
    /\ UNCHANGED <<promptVars, sideVars, tabUrl, contentScriptStatus, suggestionCache>>

\* the chrome.tabs.query callback: lastError ("error"), no tab ("none"), or
\* the active tab t ("tab"); then the restricted check and ensureContentScript up to
\* its first ping
TabsQuery(q, res, t) ==
    /\ call[q].pc = "query"
    /\ res = "tab" => TabOpen(t)
    /\ call' = [call EXCEPT ![q] =
          IF res = "error" THEN Answer(@, ErrorResponse("Failed to process page content request"))
          ELSE IF res = "none" THEN Answer(@, ErrorResponse("No active tab found"))
          ELSE LET c == [@ EXCEPT !.tabId = t, !.url = tabUrl[t]] IN
               IF IsRestrictedUrl(c.url)
               THEN [c EXCEPT !.pc = "fallbackInfo", !.why = "restricted"]
               ELSE IF EnsureEntry(c.url) = "return_false"
               THEN [c EXCEPT !.pc = "fallbackInfo", !.why = "notready"]
               ELSE [c EXCEPT !.pc = "ping1", !.pings = 1]]
    /\ UNCHANGED <<promptVars, sideVars, tabUrl, contentScriptStatus, suggestionCache>>

PingOutcomes == {"ready", "notready", "error", "timeout"}

\* pingContentScript resolves: the content script answered {alive, ready}
\* ("ready", "notready"), lastError or a throw ("error"), or the 3 s timer;
\* ensureContentScript and the handler go on up to their next await
PingResponse(q, res) ==
    /\ call[q].pc \in {"ping1", "ping2"}
    /\ res \in {"ready", "notready"} => Injectable(call[q].tabId)
    /\ contentScriptStatus' =
          IF res \in {"ready", "notready"}
          THEN MapSet(contentScriptStatus, call[q].tabId,
                      [ready |-> res = "ready", url |-> tabUrl[call[q].tabId]])
          ELSE contentScriptStatus
    /\ call' = [call EXCEPT ![q] =
          LET c == [@ EXCEPT !.lastPing = res] IN
          IF res = "ready"
          THEN \* chrome.tabs.sendMessage(tabId, {action: 'extractContent'})
               [c EXCEPT !.pc = "extract", !.extracts = @ + 1]
          ELSE IF c.pc = "ping1"
          THEN \* chrome.scripting.executeScript
               [c EXCEPT !.pc = "inject", !.injections = @ + 1]
          ELSE [c EXCEPT !.pc = "fallbackInfo", !.why = "notready"]]
    /\ UNCHANGED <<promptVars, sideVars, tabUrl, suggestionCache>>

\* chrome.scripting.executeScript settles
InjectSettled(q, ok) ==
    /\ call[q].pc = "inject"
    /\ ok => Injectable(call[q].tabId)
    /\ call' = [call EXCEPT ![q] =
          [@ EXCEPT !.pc = AfterInject(ok),
                    !.injected = IF ok THEN "ok" ELSE "failed",
                    !.why = IF AfterInject(ok) = "fallbackInfo" THEN "notready" ELSE @]]
    /\ UNCHANGED <<promptVars, sideVars, tabUrl, contentScriptStatus, suggestionCache>>

\* the 500 ms wait is over: pingContentScript again
SettleElapsed(q) ==
    /\ call[q].pc = "settle"
    /\ call' = [call EXCEPT ![q] = [@ EXCEPT !.pc = "ping2", !.pings = @ + 1]]
    /\ UNCHANGED <<promptVars, sideVars, tabUrl, contentScriptStatus, suggestionCache>>

\* getFallbackPageInfo: chrome.tabs.get settles (it rejects for a tab that is
\* gone); the handler sends the fallback
FallbackInfoSettled(q) ==
    /\ call[q].pc = "fallbackInfo"
    /\ call' = [call EXCEPT ![q] =
          LET info == GetFallbackPageInfo(TabOpen(@.tabId)) IN
          Answer(@, IF @.why = "agent_error"
                    THEN [info EXCEPT !.reason = "Content extraction failed"]
                    ELSE info)]
    /\ UNCHANGED <<promptVars, sideVars, tabUrl, contentScriptStatus, suggestionCache>>

ExtractOutcomes == {"lastError", "success", "failure"}

\* the extractContent callback; on success generateAISuggestions runs up to
\* its first await
ExtractResponse(q, res, page) ==
    /\ call[q].pc = "extract"
    /\ res \in {"success", "failure"} => Injectable(call[q].tabId)
    /\ call' = [call EXCEPT ![q] =
          IF res = "lastError" THEN [@ EXCEPT !.pc = "fallbackInfo", !.why = "transport"]
          ELSE IF res = "failure" THEN [@ EXCEPT !.pc = "fallbackInfo", !.why = "agent_error"]
          ELSE LET c == [@ EXCEPT !.contentHash = SimpleHash(page.content \o page.title)] IN
               IF CacheHit(suggestionCache, c.contentHash)
               THEN LET stored == CacheGet(suggestionCache, c.contentHash) IN
                    Answer([c EXCEPT !.served = "cache", !.suggestions = stored],
                           EnhancedResponse(stored))
               ELSE IF ~hasLanguageModel THEN ReturnFallback(c)
               ELSE \* LanguageModel.availability()
                    [c EXCEPT !.pc = "gen_avail", !.availabilityCalls = @ + 1]]
    /\ UNCHANGED <<promptVars, sideVars, tabUrl, contentScriptStatus, suggestionCache>>

\* generateAISuggestions: `await LanguageModel.availability()` settles
GenAvailability(q, a) ==
    /\ call[q].pc = "gen_avail"
    /\ call' = [call EXCEPT ![q] =
          IF a = "available"
          THEN \* LanguageModel.create({temperature, topK})
               [@ EXCEPT !.pc = "gen_create"]
          ELSE ReturnFallback(@)]
    /\ UNCHANGED <<promptVars, sideVars, tabUrl, contentScriptStatus, suggestionCache>>

\* generateAISuggestions: `await LanguageModel.create(...)` settles
GenCreate(q, ok) ==
    /\ call[q].pc = "gen_create"
    /\ call' = [call EXCEPT ![q] =
          IF ok
          THEN \* session.prompt(suggestionPrompt)
               [@ EXCEPT !.pc = "gen_prompt", !.sessions = @ + 1]
          ELSE ReturnFallback(@)]
    /\ UNCHANGED <<promptVars, sideVars, tabUrl, contentScriptStatus, suggestionCache>>

\* generateAISuggestions: `await session.prompt(...)` settles with text or
\* rejects; parse, cache, the finally block's session.destroy() (which returns
\* or throws into the outer catch), and the callback's sendResponse
GenPrompt(q, ok, text, destroyThrows) ==
    /\ call[q].pc = "gen_prompt"
    /\ LET suggestions == ParseAISuggestions(text)
           cached == CacheEvict(CacheSet(suggestionCache, call[q].contentHash, suggestions))
           c == [call[q] EXCEPT !.destroyed = @ + 1]
           d == [c EXCEPT !.evicted = {suggestionCache[i].key : i \in 1..Len(suggestionCache)}
                                          \ {cached[i].key : i \in 1..Len(cached)}]
       IN  IF ok /\ HasThree(suggestions)
           THEN /\ suggestionCache' = cached
                /\ call' = [call EXCEPT ![q] =
                      IF destroyThrows THEN ReturnFallback(d)
                      ELSE Answer([d EXCEPT !.served = "model", !.suggestions = suggestions],
                                  EnhancedResponse(suggestions))]
           ELSE /\ call' = [call EXCEPT ![q] = ReturnFallback(c)]
                /\ UNCHANGED suggestionCache
    /\ UNCHANGED <<promptVars, sideVars, tabUrl, contentScriptStatus>>

\* the 5 minute cleanup timer
CleanupTick ==
    /\ suggestionCache' = CacheCleanup(suggestionCache)
    /\ UNCHANGED <<promptVars, sideVars, tabUrl, contentScriptStatus, call>>

QueryOutcomes == {"error", "none", "tab"}

\* the steps of the getPageContent side.  Tab 1 is the active tab of the
\* current window and loads every url of the model; tab 2 is a background tab
\* that loads one page.  The requests extract one page.
AgentNext ==
    \/ \E u \in Urls : TabOpened(1, u)
    \/ TabOpened(2, PageB)
    \/ \E u \in Urls : TabUpdated(1, u)
    \/ \E t \in Tabs : TabRemoved(t)
    \/ \E t \in Tabs : ContentScriptReady(t, tabUrl[t])
    \/ \E q \in Calls : PageRequest(q)
    \/ \E q \in Calls, res \in QueryOutcomes : TabsQuery(q, res, 1)
    \/ \E q \in Calls, res \in PingOutcomes : PingResponse(q, res)
    \/ \E q \in Calls, ok \in BOOLEAN : InjectSettled(q, ok)
    \/ \E q \in Calls : SettleElapsed(q)
    \/ \E q \in Calls : FallbackInfoSettled(q)
    \/ \E q \in Calls, res \in ExtractOutcomes :
          ExtractResponse(q, res, [content |-> <<97>>, title |-> <<120>>])
    \/ \E q \in Calls, a \in Availabilities : GenAvailability(q, a)
    \/ \E q \in Calls, ok \in BOOLEAN : GenCreate(q, ok)
    \/ \E q \in Calls, ok \in BOOLEAN, text \in {Numbered2, Numbered3} :
          GenPrompt(q, ok, text, FALSE)
    \/ CleanupTick

\* the content script supervision: tabs, probes, injection, extraction
AgentSpec == Init /\ [][AgentNext]_vars

\* the steps of the suggestion cache: requests on one tab whose content
\* script is ready, with every page and every model response of the model
CacheNext ==
    \/ TabOpened(1, PageA)
    \/ \E q \in Calls : PageRequest(q)
    \/ \E q \in Calls : TabsQuery(q, "tab", 1)
    \/ \E q \in Calls : PingResponse(q, "ready")
    \/ \E q \in Calls, page \in Pages : ExtractResponse(q, "success", page)
    \/ \E q \in Calls, a \in Availabilities : GenAvailability(q, a)
    \/ \E q \in Calls, ok \in BOOLEAN : GenCreate(q, ok)
    \/ \E q \in Calls, ok, destroyThrows \in BOOLEAN, text \in ModelTexts :
          GenPrompt(q, ok, text, destroyThrows)
    \/ CleanupTick

\* the suggestion cache
CacheSpec == Init /\ [][CacheNext]_vars

\* --------------------------------------------------- popup ports: onConnect
\* the promptAPI side without the connection set and its history
runVars == <<hasLanguageModel, activeSessions, pc, sid, session, dlOpen,
             fullResponse, response, msgs, destroyed, emitted, outcome,
             blindSend, cancelledRun, cancelledIds, lastCancel,
             availabilityCalls>>

\* variant: onConnect without the test of the port's name
IsPopup_any(name) == TRUE

\* onConnect: `if (port.name === 'popup')`
IsPopup(name) == name = "popup"

\* onConnect(port): a popup port joins activeConnections, its heartbeat
\* interval is set and its onDisconnect listener is added; a port of another
\* name is left alone
PortConnect(p) ==
    /\ port[p].state = "unconnected"
    /\ port' = [port EXCEPT ![p] =
          [@ EXCEPT !.state = "open", !.heartbeat = IsPopup(PortName(p))]]
    /\ IF IsPopup(PortName(p))
       THEN /\ activeConnections' = activeConnections \cup {p}
            /\ connSeen' = [r \in Runs |-> connSeen[r] \/ Running(r)]
       ELSE UNCHANGED <<activeConnections, connSeen>>
    /\ UNCHANGED <<pageVars, runVars, check, validation, attempt, reply, extraction, earlyCancel, posted>>

\* the 30 s interval fires: port.postMessage({action: 'heartbeat'}) returns,
\* or it throws on a port whose other end is gone and the catch block clears
\* the interval and deletes the port
HeartbeatTick(p) ==
    /\ port[p].heartbeat
    /\ IF port[p].state = "open"
       THEN /\ port[p].unacked < MaxUnacked
            /\ port' = [port EXCEPT ![p] = [@ EXCEPT !.unacked = @ + 1]]
            /\ UNCHANGED activeConnections
       ELSE /\ port' = [port EXCEPT ![p] =
                  [@ EXCEPT !.heartbeat = FALSE, !.sendFailed = TRUE]]
            /\ activeConnections' = activeConnections \ {p}
    /\ UNCHANGED <<pageVars, runVars, connSeen, check, validation, attempt, reply, extraction, earlyCancel, posted>>

\* the popup answers a heartbeat with {action: 'heartbeat_response'}; the
\* worker has no listener for messages of the port
HeartbeatAck(p) ==
    /\ PortName(p) = "popup"
    /\ port[p].state = "open"
    /\ port[p].unacked > 0
    /\ port' = [port EXCEPT ![p] = [@ EXCEPT !.unacked = 0]]
    /\ UNCHANGED <<pageVars, promptVars, check, validation, attempt, reply, extraction, earlyCancel, posted>>

\* the other end of the port goes away (the popup closes); the worker has
\* not been told yet
PortClosed(p) ==
    /\ port[p].state = "open"
    /\ port' = [port EXCEPT ![p] = [@ EXCEPT !.state = "closing"]]
    /\ UNCHANGED <<pageVars, promptVars, check, validation, attempt, reply, extraction, earlyCancel, posted>>

\* port.onDisconnect is dispatched; the listener of a popup port clears the
\* interval and deletes the port
PortDisconnected(p) ==
    /\ port[p].state = "closing"
    /\ port' = [port EXCEPT ![p] =
          [@ EXCEPT !.state = "disconnected",
                    !.heartbeat = IF IsPopup(PortName(p)) THEN FALSE ELSE @]]
    /\ activeConnections' =
          IF IsPopup(PortName(p)) THEN activeConnections \ {p} ELSE activeConnections
    /\ UNCHANGED <<pageVars, runVars, connSeen, check, validation, attempt, reply, extraction, earlyCancel, posted>>

ConnNext ==
    \/ \E p \in AllPorts : PortConnect(p)
    \/ \E p \in AllPorts : HeartbeatTick(p)
    \/ \E p \in AllPorts : HeartbeatAck(p)
    \/ \E p \in AllPorts : PortClosed(p)
    \/ \E p \in AllPorts : PortDisconnected(p)

\* the connection tracking of the worker
ConnSpec == Init /\ [][ConnNext]_vars

\* ------------------------------------------------------ checkAPIAvailability
\* what LanguageModel.availability() can do: the four documented values, a
\* value the switch does not know, or a rejection
ReportedAvailabilities == Availabilities \cup {"after-download"}

\* checkAPIAvailability: the value the promise resolves to when the
\* capability is there (has) and availability() gave a
CheckAPIAvailability(has, a) ==
    IF ~has
    THEN [available |-> FALSE, reason |-> "API_NOT_FOUND",
          message |-> <<"Chrome Prompt API is not available. Please ensure you have Chrome 138+">>]
    ELSE CASE a = "available" ->
                [available |-> TRUE, status |-> "ready",
                 message |-> <<"AI model is ready to use.">>]
           [] a = "downloadable" ->
                [available |-> TRUE, status |-> "downloadable",
                 message |-> <<"AI model needs to be downloaded before first use.">>]
           [] a = "downloading" ->
                [available |-> FALSE, status |-> "downloading",
                 message |-> <<"AI model is currently downloading. Please wait.">>]
           [] a = "unavailable" ->
                [available |-> FALSE, status |-> "unavailable",
                 message |-> <<"AI model is not available on this device.">>]
           [] a = "throws" ->
                [available |-> FALSE, reason |-> "ERROR",
                 message |-> <<"Error checking availability: ", "(error.message)">>]
           [] OTHER ->
                [available |-> FALSE, status |-> "unknown",
                 message |-> <<"Unknown availability status: ", a>>]

\* onMessage 'checkAPIAvailability': checkAPIAvailability starts; without the
\* capability it returns at once and the handler calls sendResponse
CheckRequest(k) ==
    /\ check[k].pc = "idle"
    /\ \A o \in Checks : o < k => check[o].pc # "idle"
    /\ check' = [check EXCEPT ![k] =
          IF hasLanguageModel
          THEN [@ EXCEPT !.pc = "query"]
          ELSE [pc |-> "done", reported |-> "absent",
                result |-> CheckAPIAvailability(FALSE, "none")]]
    /\ UNCHANGED <<pageVars, promptVars, port, validation, attempt, reply, extraction, earlyCancel, posted>>

\* `await LanguageModel.availability()` settles; sendResponse(result)
CheckSettled(k, a) ==
    /\ check[k].pc = "query"
    /\ check' = [check EXCEPT ![k] =
          [pc |-> "done", reported |-> a,
           result |-> CheckAPIAvailability(hasLanguageModel, a)]]
    /\ UNCHANGED <<pageVars, promptVars, port, validation, attempt, reply, extraction, earlyCancel, posted>>

AvailNext ==
    \/ \E k \in Checks : CheckRequest(k)
    \/ \E k \in Checks, a \in ReportedAvailabilities : CheckSettled(k, a)

\* the availability checks the popup asks for
AvailSpec == Init /\ [][AvailNext]_vars

\* -------------------------------------------------------- validateParameters
\* Temperatures are counted in tenths (20 is 2.0); topK is an integer.
DefaultMinTemperature == 0    \* `?? 0.0`
DefaultMaxTemperature == 20   \* `?? 2.0`
DefaultMinTopK == 1           \* `?? 1`
DefaultMaxTopK == 8           \* `?? 8`

MathMax(a, b) == IF a >= b THEN a ELSE b
MathMin(a, b) == IF a <= b THEN a ELSE b

\* variant: `Math.max(min, value)`, the upper bound forgotten
Clamp_floorOnly(lo, hi, v) == MathMax(lo, v)

\* validateParameters: `Math.max(min, Math.min(max, value))`
Clamp(lo, hi, v) == MathMax(lo, MathMin(hi, v))

\* validateParameters: one of its two blocks.  declared is apiParams.temperature
\* or apiParams.topK (`?.min ?? default`), requested the requested value.
ValidateOne(declared, requested, defaultMin, defaultMax) ==
    IF requested = Undefined THEN Undefined
    ELSE LET v == requested[1]
             lo == IF declared.min = Undefined THEN defaultMin ELSE declared.min[1]
             hi == IF declared.max = Undefined THEN defaultMax ELSE declared.max[1]
         IN  IF v < lo \/ v > hi THEN Some(Clamp(lo, hi, v)) ELSE Some(v)

ValidateParameters(apiParams, requestedParams) ==
    [temperature |-> ValidateOne(apiParams.temperature, requestedParams.temperature,
                                 DefaultMinTemperature, DefaultMaxTemperature),
     topK |-> ValidateOne(apiParams.topK, requestedParams.topK,
                          DefaultMinTopK, DefaultMaxTopK)]

\* handlePromptAPI: `{temperature: Math.max(params.defaultTemperature * 1.2, 2.0), topK: 3}`
PromptRequestedParams(defaultTemperature) ==
    [temperature |-> Some(MathMax((defaultTemperature * 12) \div 10, 20)),
     topK |-> Some(3)]

\* ranges a provider declares: none, both ends, or one end
Undeclared == [min |-> Undefined, max |-> Undefined]
TemperatureRanges ==
    {Undeclared, [min |-> Some(5), max |-> Some(15)],
     [min |-> Some(5), max |-> Undefined], [min |-> Undefined, max |-> Some(15)]}
TopKRanges ==
    {Undeclared, [min |-> Some(2), max |-> Some(4)], [min |-> Some(3), max |-> Some(3)]}
RequestedTemperatures == {Undefined, Some(-5), Some(0), Some(12), Some(20), Some(24)}
RequestedTopKs == {Undefined, Some(0), Some(1), Some(3), Some(8), Some(9)}
DefaultTemperatures == {10, 20}     \* params.defaultTemperature: 1.0, 2.0

\* validateParameters(apiParams, requestedParams) is called and returns
Validate(apiParams, requestedParams) ==
    /\ validation.pc = "idle"
    /\ validation' = [validation EXCEPT
          !.pc = "validated", !.apiParams = apiParams,
          !.requestedParams = requestedParams,
          !.validated = ValidateParameters(apiParams, requestedParams)]
    /\ UNCHANGED <<pageVars, promptVars, port, check, attempt, reply, extraction, earlyCancel, posted>>

\* validateParameters is called on what it returned
Revalidate ==
    /\ validation.pc = "validated"
    /\ validation' = [validation EXCEPT
          !.pc = "revalidated",
          !.again = ValidateParameters(validation.apiParams, validation.validated)]
    /\ UNCHANGED <<pageVars, promptVars, port, check, attempt, reply, extraction, earlyCancel, posted>>

ParamNext ==
    \/ \E t \in TemperatureRanges, k \in TopKRanges,
          rt \in RequestedTemperatures, rk \in RequestedTopKs :
          Validate([temperature |-> t, topK |-> k], [temperature |-> rt, topK |-> rk])
    \/ \E t \in TemperatureRanges, k \in TopKRanges, d \in DefaultTemperatures :
          Validate([temperature |-> t, topK |-> k], PromptRequestedParams(d))
    \/ Revalidate

\* parameter validation
ParamSpec == Init /\ [][ParamNext]_vars

\* ------------------------------------ pingContentScript and safeSendMessage
\* variant: a promise whose value the last call of resolve() decides
Resolve_overwrite(att, v) ==
    [att EXCEPT !.resolves = @ + 1, !.verdict = IF v THEN "true" ELSE "false"]

\* `new Promise((resolve) => ...)`: resolve(v) settles a pending promise and
\* does nothing to a settled one
Resolve(att, v) ==
    [att EXCEPT !.resolves = @ + 1,
                !.verdict = IF @ = "pending" THEN (IF v THEN "true" ELSE "false") ELSE @]

PingReplies == {"lastError", "ready", "notready", "dead"}
SendReplies == {"lastError", "ok"}

\* pingContentScript(t): the timer is set; chrome.tabs.sendMessage is called,
\* or it throws and the catch block clears the timer and resolves false
StartPing(a, t, throws) ==
    /\ attempt[a].kind = "none"
    /\ \A o \in Attempts : o < a => attempt[o].kind # "none"
    /\ attempt' = [attempt EXCEPT ![a] =
          LET made == [@ EXCEPT !.kind = "ping", !.tabId = t] IN
          IF throws
          THEN Resolve([made EXCEPT !.timer = "cleared", !.reply = "threw"], FALSE)
          ELSE [made EXCEPT !.timer = "armed", !.reply = "awaited"]]
    /\ UNCHANGED <<pageVars, promptVars, port, check, validation, reply, extraction, earlyCancel, posted>>

\* safeSendMessage(message): without a connection it resolves false at once;
\* else the timer is set and chrome.runtime.sendMessage is called, or it
\* throws and the catch block resolves false (the timer stays set)
StartSend(a, throws) ==
    /\ attempt[a].kind = "none"
    /\ \A o \in Attempts : o < a => attempt[o].kind # "none"
    /\ throws => HasActiveConnections(activeConnections)
    /\ attempt' = [attempt EXCEPT ![a] =
          LET made == [@ EXCEPT !.kind = "send"] IN
          IF ~HasActiveConnections(activeConnections) THEN Resolve(made, FALSE)
          ELSE IF throws
          THEN Resolve([made EXCEPT !.timer = "armed", !.reply = "threw"], FALSE)
          ELSE [made EXCEPT !.timer = "armed", !.reply = "awaited"]]
    /\ UNCHANGED <<pageVars, promptVars, port, check, validation, reply, extraction, earlyCancel, posted>>

\* the setTimeout callback: resolve(false)
TimerFires(a) ==
    /\ attempt[a].timer = "armed"
    /\ attempt' = [attempt EXCEPT ![a] = Resolve([@ EXCEPT !.timer = "fired"], FALSE)]
    /\ UNCHANGED <<pageVars, promptVars, port, check, validation, reply, extraction, earlyCancel, posted>>

\* the sendMessage callback: clearTimeout, then lastError -> resolve(false);
\* ping: alive -> contentScriptStatus.set and resolve(response.ready), else
\* resolve(false); send: resolve(true)
AttemptReply(a, res) ==
    /\ attempt[a].reply = "awaited"
    /\ res \in (IF attempt[a].kind = "ping" THEN PingReplies ELSE SendReplies)
    /\ res \in {"ready", "notready"} => Injectable(attempt[a].tabId)
    /\ attempt' = [attempt EXCEPT ![a] =
          Resolve([@ EXCEPT !.reply = res,
                            !.late = (attempt[a].timer = "fired"),
                            !.timer = IF @ = "armed" THEN "cleared" ELSE @],
                  res \in {"ready", "ok"})]
    /\ contentScriptStatus' =
          IF res \in {"ready", "notready"}
          THEN MapSet(contentScriptStatus, attempt[a].tabId,
                      [ready |-> res = "ready", url |-> tabUrl[attempt[a].tabId]])
          ELSE contentScriptStatus
    /\ UNCHANGED <<promptVars, tabUrl, suggestionCache, call, port, check, validation, reply, extraction, earlyCancel, posted>>

ProbeNext ==
    \/ TabOpened(1, PageA)
    \/ \E p \in Ports : OnConnect(p)
    \/ \E p \in Ports : OnDisconnect(p)
    \/ \E a \in Attempts, throws \in BOOLEAN : StartPing(a, 1, throws)
    \/ \E a \in Attempts, throws \in BOOLEAN : StartSend(a, throws)
    \/ \E a \in Attempts : TimerFires(a)
    \/ \E a \in Attempts, res \in PingReplies \cup SendReplies : AttemptReply(a, res)

\* the probes and the delivery attempts
ProbeSpec == Init /\ [][ProbeNext]_vars

\* a timer that is set fires unless it is cleared
ProbeFairSpec == ProbeSpec /\ \A a \in Attempts : WF_vars(TimerFires(a))

\* ------------------------------------------- one run of each kind, together
\* one promptAPI run and getPageContent requests on one ready tab
LifecycleNext ==
    \/ \E s \in SessionIds : pc[1] = "idle" /\ Request(s)
    \/ \E a \in Availabilities : Availability(1, a)
    \/ \E ok \in BOOLEAN : DownloadCreate(1, ok)
    \/ \E ev \in DownloadEvents : DownloadEnd(1, ev)
    \/ \E ok \in BOOLEAN : Params(1, ok)
    \/ \E ok, starts \in BOOLEAN : CreateSession(1, ok, starts)
    \/ \E c \in AllChunks : StreamChunk(1, c)
    \/ SendSettled(1)
    \/ StreamEnd(1)
    \/ StreamError(1)
    \/ \E ok \in BOOLEAN, text \in PromptTexts : FallbackPrompt(1, ok, text)
    \/ \E p \in Ports : OnConnect(p)
    \/ \E p \in Ports : OnDisconnect(p)
    \/ TabOpened(1, PageA)
    \/ PageRequest(1)
    \/ TabsQuery(1, "tab", 1)
    \/ PingResponse(1, "ready")
    \/ ExtractResponse(1, "success", [content |-> <<97>>, title |-> <<120>>])
    \/ \E a \in Availabilities : GenAvailability(1, a)
    \/ \E ok \in BOOLEAN : GenCreate(1, ok)
    \/ \E ok \in BOOLEAN, text \in {Numbered3, ProseOnly} : GenPrompt(1, ok, text, FALSE)

\* the model lifecycle as both kinds of run go through it
LifecycleSpec == Init /\ [][LifecycleNext]_vars

\* ------------------------------------- promptAPI: the answer to a failed run
\* A message is a sequence of pieces of text; a piece holds none of the
\* searched words unless it is that word.  String.includes: the pieces of the
\* needle occur in a row.
Includes(msg, needle) ==
    \E i \in 1..(Len(msg) - Len(needle) + 1) :
        SubSeq(msg, i, i + Len(needle) - 1) = needle

\* the messages handlePromptAPI and handleModelDownload throw
ApiMissingMessage ==
    <<"Chrome Prompt API is ", "not available",
      ". Please ensure you have Chrome 127+ and the AI features are enabled.">>
UnavailableMessage == <<"The AI language model is ", "not available", " on this device.">>
DownloadingMessage ==
    <<"AI model is currently ", "download", "ing", ". Please try again in a few moments.">>
DownloadFailedPrefix == <<"Failed to ", "download", " AI model: ">>

\* the category messages of the onMessage handler
NotAvailableUserMessage ==
    <<"AI features are not available. Please ensure you have Chrome 138+">>
RetryLaterUserMessage ==
    <<"AI model is downloading. Please wait a moment and try again.">>
DownloadFailedUserMessage ==
    <<"Failed to download AI model. Please check your internet connection and try again.">>

\* messages of the errors the provider raises
ProviderMessages ==
    {<<"The session has been destroyed.">>,
     <<"Model execution service is ", "not available", ".">>,
     <<"Unable to ", "download", " the model.">>}

\* where a run fails: the capability check, the availability value, the
\* download (error event, timer, or the monitored create rejecting), or a
\* provider call that rejects
ProviderCauses == {"availability", "params", "create", "prompt"}
FailureCauses ==
    {"absent", "unavailable", "downloading", "download_error", "download_timeout",
     "download_create"} \cup ProviderCauses

\* error.message of what handlePromptAPI throws; detail is the message of the
\* provider's error
RawMessage(cause, detail) ==
    CASE cause = "absent" -> ApiMissingMessage
      [] cause = "unavailable" -> UnavailableMessage
      [] cause = "downloading" -> DownloadingMessage
      [] cause = "download_error" -> DownloadFailedPrefix \o <<"undefined">>
      [] cause = "download_timeout" -> DownloadFailedPrefix \o <<"Download timeout">>
      [] cause = "download_create" -> DownloadFailedPrefix \o detail
      [] OTHER -> detail

\* onMessage promptAPI catch: `let userMessage = error.message; if (includes...)`
UserMessage(raw) ==
    IF Includes(raw, <<"not available">>) THEN NotAvailableUserMessage
    ELSE IF Includes(raw, <<"download", "ing">>) THEN RetryLaterUserMessage
    ELSE IF Includes(raw, <<"download">>) THEN DownloadFailedUserMessage
    ELSE raw

\* a promptAPI run with id s rejects for the cause and the handler calls
\* sendResponse({success: false, error, originalError, sessionId})
FailRequest(k, s, cause, detail) ==
    /\ reply[k].cause = "none"
    /\ \A o \in Replies : o < k => reply[o].cause # "none"
    /\ cause = "absent" <=> ~hasLanguageModel
    /\ reply' = [reply EXCEPT ![k] =
          [cause |-> cause, success |-> FALSE,
           raised |-> RawMessage(cause, detail), requested |-> s,
           error |-> UserMessage(RawMessage(cause, detail)),
           originalError |-> RawMessage(cause, detail), sessionId |-> s]]
    /\ UNCHANGED <<pageVars, promptVars, port, check, validation, attempt, extraction, earlyCancel, posted>>

ErrorNext ==
    \/ \E k \in Replies, s \in SessionIds, cause \in FailureCauses \ ProviderCauses :
          FailRequest(k, s, cause, <<"undefined">>)
    \/ \E k \in Replies, s \in SessionIds, cause \in ProviderCauses \cup {"download_create"},
          detail \in ProviderMessages :
          FailRequest(k, s, cause, detail)

\* the answers to failed promptAPI requests
ErrorSpec == Init /\ [][ErrorNext]_vars

\* ------------------------------------- content script: extractPageContent
Ellipsis == <<46, 46, 46>>      \* '...'

\* variant: `if (content.length >= 2000)`
LimitContent_atLimit(content) ==
    IF Len(content) >= ContentLimit
    THEN SubSeq(content, 1, ContentLimit) \o Ellipsis
    ELSE content

\* extractPageContent: `if (content.length > 2000) content = content.substring(0, 2000) + '...'`
LimitContent(content) ==
    IF Len(content) > ContentLimit
    THEN SubSeq(content, 1, ContentLimit) \o Ellipsis
    ELSE content

\* what cleanText returns: texts of two letters, up to MaxContent long
CleanedTexts == UNION {[1..n -> {97, 98}] : n \in 0..MaxContent}

\* extractPageContent: cleanText has returned cleaned; limit and return
ExtractPageContent(cleaned) ==
    /\ extraction.pc = "idle"
    /\ extraction' = [pc |-> "done", cleaned |-> cleaned,
                      content |-> LimitContent(cleaned)]
    /\ UNCHANGED <<pageVars, promptVars, port, check, validation, attempt, reply, earlyCancel, posted>>

ExtractNext == \E cleaned \in CleanedTexts : ExtractPageContent(cleaned)

\* the content script's extraction
ExtractSpec == Init /\ [][ExtractNext]_vars

\* ----------------------------------------- cancelSession before registration
\* two promptAPI requests under one session id, a popup that connects, and
\* cancelSession calls at every moment; the provider calls that a run needs
\* to reach its stream succeed or refuse
CancelNext ==
    \/ Request(1)
    \/ \E r \in Runs, a \in {"available", "downloadable", "unavailable"} : Availability(r, a)
    \/ \E r \in Runs : DownloadCreate(r, TRUE)
    \/ \E r \in Runs : DownloadEnd(r, "complete")
    \/ \E r \in Runs : Params(r, TRUE)
    \/ \E r \in Runs, ok \in BOOLEAN : CreateSession(r, ok, TRUE)
    \/ \E r \in Runs, c \in AllChunks : StreamChunk(r, c)
    \/ \E r \in Runs : SendSettled(r)
    \/ \E r \in Runs : StreamEnd(r)
    \/ \E throws \in BOOLEAN : CancelObserved(1, throws)
    \/ \E p \in Ports : OnConnect(p)

\* cancelSession against the stages of a run
CancelSpec == Init /\ [][CancelNext]_vars

\* ------------------------------------------- contentScriptStatus and the tabs
\* tabs that load pages, navigate and close; content scripts that announce
\* themselves, their messages reaching the worker at any later turn; and one
\* getPageContent request that probes the active tab
StatusNext ==
    \/ \E u \in Urls : TabOpened(1, u)
    \/ TabOpened(2, PageB)
    \/ \E u \in Urls : TabUpdated(1, u)
    \/ \E t \in Tabs : TabRemoved(t)
    \/ \E t \in Tabs : ContentScriptInit(t)
    \/ \E t \in Tabs, u \in Urls : ContentScriptReady(t, u)
    \/ PageRequest(1)
    \/ TabsQuery(1, "tab", 1)
    \/ \E res \in PingOutcomes : PingResponse(1, res)
    \/ \E ok \in BOOLEAN : InjectSettled(1, ok)
    \/ SettleElapsed(1)
    \/ FallbackInfoSettled(1)
    \/ \E res \in {"lastError", "failure"} :
          ExtractResponse(1, res, [content |-> <<97>>, title |-> <<120>>])

\* the status table against navigations and closures
StatusSpec == Init /\ [][StatusNext]_vars

\* ------------------------------------------------- one response per request
\* the callbacks, provider results and timers that resume getPageContent
\* request q
CallStep(q) ==
    \/ \E res \in QueryOutcomes : TabsQuery(q, res, 1)
    \/ \E res \in PingOutcomes : PingResponse(q, res)
    \/ \E ok \in BOOLEAN : InjectSettled(q, ok)
    \/ SettleElapsed(q)
    \/ FallbackInfoSettled(q)
    \/ \E res \in ExtractOutcomes :
          ExtractResponse(q, res, [content |-> <<97>>, title |-> <<120>>])
    \/ \E a \in Availabilities : GenAvailability(q, a)
    \/ \E ok \in BOOLEAN : GenCreate(q, ok)
    \/ \E ok \in BOOLEAN, text \in {Numbered2, Numbered3} : GenPrompt(q, ok, text, FALSE)

\* one promptAPI request, with or without a popup connected, and
\* getPageContent requests one at a time, on every path: every tab state,
\* every callback result, every provider result
ResponseNext ==
    \/ \E u \in Urls : TabOpened(1, u)
    \/ TabRemoved(1)
    \/ PageRequest(1)
    \/ CallStep(1)
    \/ pc[1] = "idle" /\ Request(1)
    \/ RunStep(1)
    \/ \E p \in Ports : OnConnect(p)

\* every callback, provider call and timer a request waits on is eventually
\* invoked
ResponseSpec ==
    /\ Init /\ [][ResponseNext]_vars
    /\ WF_vars(CallStep(1))
    /\ WF_vars(RunStep(1))

\* ------------------------------------------------------------------ claims
\* the streamingResponse messages run r has sent, in sending order
RunMsgs(r) ==
    IF sid[r] \in SessionIds
    THEN SelectSeq(msgs[sid[r]], LAMBDA m : m.run = r)
    ELSE << >>

Done(r) == pc[r] = "done"

\* C1: for every run whose provider session was created, destroy is invoked
\* on that handle exactly once, whichever way the run ends (never twice, and
\* once by the time the run has ended).
C1_DestroyExactlyOnce ==
    \A r \in Runs :
        session[r] # Null =>
            /\ destroyed[r] <= 1
            /\ Done(r) => destroyed[r] = 1

\* C2: once cancelSession has returned true for the session of a run, that
\* run sends no further streamingResponse message; the chunk at whose
\* boundary the cancellation is detected is neither sent nor accumulated.
C2_NoDeliveryAfterCancel ==
    [][\A r \in Runs :
          /\ cancelledRun[r] => RunMsgs(r)' = RunMsgs(r)
          /\ (outcome[r] # "cancelled" /\ outcome'[r] = "cancelled") =>
                /\ RunMsgs(r)' = RunMsgs(r)
                /\ response'[r] = Success(fullResponse[r])]_vars

\* C3 as stated: for each session id, every streamingResponse message carries
\* a fullResponse that extends the fullResponse of the message before it.
C3_PerIdPrefixOrder ==
    \A s \in SessionIds : \A i \in 2..Len(msgs[s]) :
        IsPrefix(msgs[s][i - 1].fullResponse, msgs[s][i].fullResponse)

\* C3 amended: for each run, the messages are sent in chunk emission order,
\* each carries the chunk emitted last, and its fullResponse is the previous
\* message's fullResponse of that run (empty for the first) extended by the
\* chunks the run's stream emitted since.
C3_PerRunPrefixOrder ==
    \A r \in Runs :
        LET ms == RunMsgs(r) IN
        \A i \in 1..Len(ms) :
            LET prevFull == IF i = 1 THEN << >> ELSE ms[i - 1].fullResponse
                prevUpto == IF i = 1 THEN 0 ELSE ms[i - 1].upto
            IN  /\ prevUpto < ms[i].upto
                /\ ms[i].upto <= Len(emitted[r])
                /\ ms[i].chunk = emitted[r][ms[i].upto]
                /\ ms[i].fullResponse =
                      prevFull \o Flatten(SubSeq(emitted[r], prevUpto + 1, ms[i].upto))

\* a run has sent two messages, and a run has sent its first message only
\* with its second chunk, the first having gone unsent
C3_Witness ==
    /\ \E r \in Runs : Len(RunMsgs(r)) = 2
    /\ \E q \in Runs : RunMsgs(q) # << >> /\ RunMsgs(q)[1].upto = 2

\* C4: a run that reaches registration with a session id under which a
\* provider session is still registered fails, and the entry stays as it is.
C4_DuplicateIdRejected ==
    [][\A r \in Runs :
          (pc[r] = "create" /\ pc'[r] # "create" /\ MapHas(activeSessions, sid[r])) =>
              /\ Done(r)'
              /\ ~response'[r].success
              /\ activeSessions' = activeSessions]_vars

C6_ActiveOnlyLive ==
    /\ [](\A s \in DOMAIN activeSessions :
             LET h == activeSessions[s] IN
             sid[h] = s /\ session[h] = h /\ ~Done(h))
    /\ [][\A r \in Runs :
             (~Done(r) /\ Done(r)') => ~MapHas(activeSessions', sid'[r])]_vars

\* a run that had registered its session has ended and its id is gone
C6_Witness ==
    \E r \in Runs :
        /\ Done(r) /\ session[r] # Null /\ ~cancelledRun[r]
        /\ ~MapHas(activeSessions, sid[r])

\* C7: when a request has ended in a failure response, every provider session
\* created for it (the download session included) has been destroyed and its
\* registration is gone.
C7_FailureLeavesNoSession ==
    \A r \in Runs :
        (Done(r) /\ ~response[r].success) =>
            /\ ~dlOpen[r]
            /\ session[r] # Null => destroyed[r] >= 1
            /\ ~(MapHas(activeSessions, sid[r]) /\ activeSessions[sid[r]] = r)

\* C8: chrome.runtime.sendMessage is called for a chunk or a progress update
\* only while activeConnections is non-empty; a run during which no
\* connection was ever live sends nothing and still returns all the text it
\* accumulated.
C8_DeliveryOnlyWhenConnected ==
    /\ ~blindSend
    /\ \A r \in Runs :
          ~connSeen[r] =>
              /\ RunMsgs(r) = << >>
              /\ (Done(r) /\ outcome[r] = "completed") =>
                    response[r] = Success(Flatten(emitted[r]))
              /\ (Done(r) /\ outcome[r] = "cancelled") =>
                    response[r] = Success(Flatten(Front(emitted[r])))

\* a run has returned two chunks of text with no connection ever live
C8_Witness ==
    \E r \in Runs :
        /\ Done(r) /\ ~connSeen[r] /\ outcome[r] = "completed"
        /\ Len(response[r].response) = MaxChunks

\* C9: a run that is not cancelled and whose stream does not fail returns the
\* concatenation of all the chunks its stream emitted, whatever the
\* connections and deliveries did.
C9_TextIsConcatenation ==
    \A r \in Runs :
        (Done(r) /\ ~cancelledRun[r] /\ outcome[r] \in {"completed", "cancelled"}) =>
            response[r] = Success(Flatten(emitted[r]))

\* C10: every run that has started ends: it has run its teardown (session
\* destroyed, registration gone) and sent its response.  A run never leaves
\* "done" and never returns to "idle", so a run that is infinitely often idle
\* or done ends once started.
C10_RunsTerminate ==
    /\ \A r \in Runs : []<>(pc[r] \in {"idle", "done"})
    /\ [](\A r \in Runs : Done(r) =>
             /\ response[r] # << >>
             /\ session[r] # Null => destroyed[r] >= 1
             /\ ~(MapHas(activeSessions, sid[r]) /\ activeSessions[sid[r]] = r))

\* a run has ended after sending a message, being cancelled, and losing its connection
C10_Witness ==
    \E r \in Runs :
        /\ Done(r) /\ cancelledRun[r] /\ RunMsgs(r) # << >>
        /\ activeConnections = {}

\* ------------------------------------------------- claims C11 to C20
\* request q takes a step of generateAISuggestions that ends it
GenEnds(q) == call[q].pc \in {"extract", "gen_avail", "gen_create", "gen_prompt"}
              /\ call'[q].pc = "done" /\ call'[q].served # "none"

\* request q takes the step that inserts a fingerprint the cache did not
\* hold: it returns what it has generated, or the cache changes
InsertsNew(q) ==
    /\ call[q].pc = "gen_prompt" /\ call'[q].pc = "done"
    /\ ~CacheHas(suggestionCache, call[q].contentHash)
    /\ call'[q].served = "model" \/ suggestionCache' # suggestionCache

\* C11: at the end of every operation the cache holds at most N entries.
C11_CacheBounded == Len(suggestionCache) <= CacheLimit

\* the cache is full and the latest insertion has evicted an entry
C11_Witness ==
    /\ Len(suggestionCache) = CacheLimit
    /\ \E q \in Calls : call[q].served = "model" /\ call[q].evicted # {}

\* C12: when the insertion of a new fingerprint takes the cache beyond N,
\* exactly the earliest-inserted entry is evicted; all the others stay, in
\* their order, followed by the new entry.
C12_EvictsOldest ==
    [][\A q \in Calls :
          (InsertsNew(q) /\ Len(suggestionCache) = CacheLimit) =>
              /\ Len(suggestionCache') = CacheLimit
              /\ SubSeq(suggestionCache', 1, CacheLimit - 1) = Tail(suggestionCache)
              /\ suggestionCache'[CacheLimit].key = call[q].contentHash
              /\ call'[q].evicted = {suggestionCache[1].key}]_vars

\* N + 1 fingerprints were inserted in a row: the first is gone, the others
\* are all there
C12_Witness ==
    /\ Len(suggestionCache) = CacheLimit
    /\ \E q \in Calls :
          /\ call[q].pc = "done" /\ call[q].served = "model"
          /\ Cardinality(call[q].evicted) = 1
          /\ \A k \in call[q].evicted : ~CacheHas(suggestionCache, k)
          /\ suggestionCache[CacheLimit].key = call[q].contentHash

\* C13 as stated: a fingerprint leaves the cache only as the earliest-inserted
\* member, at an insertion that takes the size beyond N.
C13_LeavesOnlyByEviction ==
    [][\A i \in 1..Len(suggestionCache) :
          ~CacheHas(suggestionCache', suggestionCache[i].key) =>
              /\ i = 1
              /\ Len(suggestionCache) = CacheLimit
              /\ \E q \in Calls : InsertsNew(q)]_vars

\* C13 amended: a fingerprint leaves the cache only as the earliest-inserted
\* member at an insertion that takes the size beyond N, or as one of the
\* CleanupBatch earliest-inserted members at a cleanup tick that finds more
\* than CleanupThreshold entries; no other step removes an entry.
C13_LeavesByEvictionOrCleanup ==
    [][\A i \in 1..Len(suggestionCache) :
          ~CacheHas(suggestionCache', suggestionCache[i].key) =>
              \/ /\ i = 1
                 /\ Len(suggestionCache) = CacheLimit
                 /\ \E q \in Calls : InsertsNew(q)
              \/ /\ i <= CleanupBatch
                 /\ Len(suggestionCache) > CleanupThreshold
                 /\ call' = call
                 /\ Len(suggestionCache') = Len(suggestionCache) - CleanupBatch]_vars

\* a cleanup has taken out the entry a finished request had inserted, and
\* another request has been served from what the cleanup left
C13_Witness ==
    /\ Len(suggestionCache) = CleanupThreshold
    /\ \E q, o \in Calls :
          /\ call[q].served = "model" /\ call[q].evicted = {}
          /\ ~CacheHas(suggestionCache, call[q].contentHash)
          /\ call[o].served = "cache"

\* C14: a call with a fingerprint the cache holds returns the stored triple in
\* the same step, queries no availability, creates no session and leaves the
\* cache as it is.
C14_HitLeavesCache ==
    [][\A q \in Calls :
          (call[q].pc = "extract" /\ call'[q].contentHash # 0
           /\ CacheHas(suggestionCache, call'[q].contentHash)) =>
              /\ call'[q].pc = "done"
              /\ call'[q].suggestions = CacheGet(suggestionCache, call'[q].contentHash)
              /\ call'[q].response = EnhancedResponse(call'[q].suggestions)
              /\ call'[q].availabilityCalls = 0
              /\ call'[q].sessions = 0
              /\ suggestionCache' = suggestionCache]_vars

\* a request was served from the cache
C14_Witness ==
    \E q \in Calls :
        /\ call[q].pc = "done" /\ call[q].served = "cache"
        /\ CacheHas(suggestionCache, call[q].contentHash)
        /\ call[q].suggestions = CacheGet(suggestionCache, call[q].contentHash)

\* C15: the value stored under a fingerprint does not change while the
\* fingerprint stays in the cache.
C15_EntriesImmutable ==
    [][\A i \in 1..Len(suggestionCache) :
          CacheHas(suggestionCache', suggestionCache[i].key) =>
              CacheGet(suggestionCache', suggestionCache[i].key) = suggestionCache[i].value]_vars

\* C16: an entry is inserted only by a generation whose parse gave exactly
\* three suggestions and which returns them; a call that returns the
\* fallback triple leaves the cache unchanged.
C16_OnlySuccessCached ==
    [][\A q \in Calls :
          GenEnds(q) =>
              /\ suggestionCache' # suggestionCache =>
                    /\ call'[q].served = "model"
                    /\ Len(call'[q].suggestions) = 3
              /\ call'[q].served = "fallback" =>
                    /\ call'[q].suggestions = FallbackSuggestions
                    /\ suggestionCache' = suggestionCache]_vars

\* C17: generateAISuggestions returns three strings on every path, and every
\* cache entry holds three strings.
C17_AlwaysThree ==
    /\ \A q \in Calls :
          (call[q].pc = "done" /\ call[q].served # "none") =>
              /\ Len(call[q].suggestions) = 3
              /\ call[q].response.suggestions = call[q].suggestions
    /\ \A i \in 1..Len(suggestionCache) : Len(suggestionCache[i].value) = 3

\* one request got the fallback triple after its session was created, and
\* another one a triple read from the cache
C17_Witness ==
    \E q, o \in Calls :
        /\ call[q].pc = "done" /\ call[q].served = "fallback" /\ call[q].sessions = 1
        /\ call[o].pc = "done" /\ call[o].served = "cache"

\* C18: a call of ensureContentScript makes at most two probes and one
\* injection; the second probe follows a first probe that was not ready and
\* an injection that succeeded; the result is true (the handler goes on to
\* extractContent) iff the last probe reported ready; a failed injection
\* gives false with no second probe.
C18_ProbeBudget ==
    /\ [](\A q \in Calls :
            LET c == call[q] IN
            /\ c.pings <= 2 /\ c.injections <= 1
            /\ c.pings = 2 => (c.injections = 1 /\ c.injected = "ok")
            /\ c.injections = 1 => c.pings >= 1
            /\ c.pc \in {"inject", "settle", "ping2"} => c.lastPing \notin {"none", "ready"}
            /\ c.pc \in {"settle", "ping2"} => c.injected = "ok"
            /\ c.injected = "failed" => (c.pings = 1 /\ c.extracts = 0 /\ c.why = "notready")
            /\ c.extracts <= 1
            /\ c.extracts = 1 <=> c.lastPing = "ready"
            /\ c.why = "notready" => c.lastPing # "ready")
    /\ [][\A q \in Calls :
            (call[q].pings = 1 /\ call'[q].pings = 2) =>
                (call[q].lastPing \notin {"none", "ready"} /\ call[q].injected = "ok")]_vars

\* one request went on to extraction after its second probe, and one was
\* answered after a failed injection
C18_Witness ==
    \E q, o \in Calls :
        /\ call[q].pings = 2 /\ call[q].extracts = 1 /\ call[q].lastPing = "ready"
        /\ call[o].pc = "done" /\ call[o].injected = "failed"

\* locators of the restricted kinds, and locators that only look like them
RestrictedSamples ==
    {<<"chrome:", "//", "settings">>, <<"chrome-extension:", "//", "abcdef", "/popup.html">>,
     <<"moz-extension:", "//", "abcdef">>, <<"edge-extension:", "//", "abcdef">>,
     <<"file:", "//", "/home/u/page.html">>, <<"about:", "blank">>,
     <<"data:", "text/html,hello">>, <<"blob:", "https:", "//", "a.example", "/1">>,
     << >>}
UnrestrictedSamples ==
    {PageA, PageB, <<"https:", "//", "a.example", "/?next=", "chrome:", "//", "settings">>,
     <<"http:", "//", "file:", "//">>}

\* what a request on a restricted locator has done: nothing but the tab lookup
NoAgentWork(c) ==
    /\ c.pings = 0 /\ c.injections = 0 /\ c.extracts = 0
    /\ c.availabilityCalls = 0 /\ c.sessions = 0

\* C19 as stated: for a restricted locator ensureContentScript returns false,
\* and a getPageContent request answers fallback:true with a reason and the
\* fixed triple, after no probe, injection, extraction or session.
C19_RestrictedFallback ==
    /\ \A u \in RestrictedSamples : EnsureEntry(u) = "return_false"
    /\ \A u \in UnrestrictedSamples : EnsureEntry(u) = "ping"
    /\ \A q \in Calls :
          (call[q].tabId # 0 /\ call[q].url \in RestrictedSamples) =>
              /\ NoAgentWork(call[q])
              /\ call[q].pc = "done" =>
                    /\ call[q].response.fallback
                    /\ call[q].response.reason # "none"
                    /\ call[q].response.suggestions = FallbackSuggestions

\* C19 amended: for a restricted locator ensureContentScript returns false,
\* and a getPageContent request answers, after no probe, injection,
\* extraction or session, with what getFallbackPageInfo gives: fallback:true
\* with a reason and the fixed triple when the tab can be looked up, and
\* {error, fallback:true} without reason or triple when the lookup fails.
C19_RestrictedFallbackOrError ==
    /\ [](/\ \A u \in RestrictedSamples : EnsureEntry(u) = "return_false"
          /\ \A u \in UnrestrictedSamples : EnsureEntry(u) = "ping"
          /\ \A q \in Calls :
                (call[q].tabId # 0 /\ call[q].url \in RestrictedSamples) =>
                    /\ NoAgentWork(call[q])
                    /\ call[q].pc \in {"fallbackInfo", "done"}
                    /\ call[q].pc = "done" => call[q].response.fallback)
    /\ [][\A q \in Calls :
            (call[q].tabId # 0 /\ call[q].url \in RestrictedSamples
             /\ call[q].pc = "fallbackInfo" /\ call'[q].pc = "done") =>
                call'[q].response = GetFallbackPageInfo(TabOpen(call[q].tabId))]_vars

\* a request on a tab without url got the whole fallback payload, and a
\* request on a browser page, whose tab was closed meanwhile, got the error
C19_Witness ==
    \E q, o \in Calls :
        /\ call[q].pc = "done" /\ call[q].tabId # 0 /\ call[q].url = << >>
        /\ call[q].response = GetFallbackPageInfo(TRUE)
        /\ call[o].pc = "done" /\ call[o].url = Settings
        /\ call[o].response = GetFallbackPageInfo(FALSE)

\* C20: the step in which a tab is closed or goes to another url removes the
\* contentScriptStatus entry of that tab and leaves the other entries as they
\* are; and every ensureContentScript call on an unrestricted url sends its
\* own probe, going on to extraction only after a probe of its own was ready.
C20_InvalidatedOnCloseOrNavigate ==
    /\ [][\A t \in Tabs :
            (tabUrl[t] # NoTab /\ tabUrl'[t] # tabUrl[t]) =>
                /\ ~MapHas(contentScriptStatus', t)
                /\ \A o \in Tabs \ {t} :
                      /\ MapHas(contentScriptStatus', o) <=> MapHas(contentScriptStatus, o)
                      /\ MapHas(contentScriptStatus, o) =>
                            contentScriptStatus'[o] = contentScriptStatus[o]]_vars
    /\ [](\A q \in Calls :
            (call[q].tabId # 0 /\ ~IsRestrictedUrl(call[q].url)) =>
                /\ call[q].pings >= 1
                /\ call[q].extracts >= 1 => call[q].lastPing = "ready")

\* tab 1, whose content script had answered a probe, is closed and has no
\* entry; the entry of tab 2 is there
C20_Witness ==
    /\ tabUrl[1] = Closed
    /\ ~MapHas(contentScriptStatus, 1)
    /\ MapHas(contentScriptStatus, 2)
    /\ \E q \in Calls : call[q].tabId = 1 /\ call[q].lastPing \in {"ready", "notready"}

\* C21: for each registered connection, when a heartbeat has been sent and
\* no acknowledgement is received for it, the connection is removed from
\* activeConnections without a retry: a connection whose heartbeat is still
\* unacknowledged when the next heartbeat is sent is not in activeConnections.
C21_UnackedRemoved ==
    \A p \in AllPorts : port[p].unacked >= 2 => p \notin activeConnections

\* C22: in every reachable state activeConnections holds exactly the ports
\* named 'popup' that have connected and have since neither disconnected nor
\* failed a heartbeat send; a port of another name is never added, and
\* removing a connection that is already removed changes nothing.
C22_ExactlyLivePopups ==
    /\ [](activeConnections =
            {p \in AllPorts : /\ PortName(p) = "popup"
                              /\ port[p].state \in {"open", "closing"}
                              /\ ~port[p].sendFailed})
    /\ [][\A p \in AllPorts :
            (p \notin activeConnections /\ (HeartbeatTick(p) \/ PortDisconnected(p)))
                => activeConnections' = activeConnections]_vars

\* a port of another name is connected, one popup port was removed twice (by
\* the failed heartbeat and by onDisconnect) and the other popup port is live
C22_Witness ==
    /\ port["options"].state = "open"
    /\ \E p \in AllPorts :
          /\ port[p].state = "disconnected"
          /\ port[p].sendFailed
          /\ activeConnections = (AllPorts \ {p, "options"})

\* C23: checkAPIAvailability is a total, deterministic function of the
\* provider's reported state: for each of available, downloadable,
\* downloading, unavailable and capability-absent the result is one fixed
\* {available, status, message} record, the same on every invocation.
C23_FixedResultPerState ==
    \A k \in Checks :
        (check[k].pc = "done" /\ check[k].reported \in
            {"available", "downloadable", "downloading", "unavailable", "absent"}) =>
            /\ DOMAIN check[k].result = {"available", "status", "message"}
            /\ \A o \in Checks :
                  (check[o].pc = "done" /\ check[o].reported = check[k].reported)
                      => check[o].result = check[k].result

\* C24: every result of checkAPIAvailability carries a status field whose
\* value is one of ready, downloadable, downloading, unavailable,
\* api_not_found, error; an absent capability yields api_not_found and a
\* failing availability query yields error.
C24_StatusInDocumentedSet ==
    \A k \in Checks :
        check[k].pc = "done" =>
            /\ "status" \in DOMAIN check[k].result
            /\ check[k].result.status \in
                  {"ready", "downloadable", "downloading", "unavailable",
                   "api_not_found", "error"}
            /\ check[k].reported = "absent" => check[k].result.status = "api_not_found"
            /\ check[k].reported = "throws" => check[k].result.status = "error"

\* C25: when the provider reports 'downloading' the run fails in that turn
\* with the retry-later error: no provider session is created, no download
\* event or timeout is awaited, and the run never registers its session id.
C25_DownloadingFailsAtOnce ==
    /\ [][\A r \in Runs :
            Availability(r, "downloading") =>
                /\ pc'[r] = "done"
                /\ response'[r] = Failure("model_downloading")]_vars
    /\ [](\A r \in Runs :
            (pc[r] = "done" /\ response[r] = Failure("model_downloading")) =>
                /\ session[r] = Null
                /\ ~dlOpen[r]
                /\ destroyed[r] = 0
                /\ \A s \in DOMAIN activeSessions : activeSessions[s] # r)

\* a run that ended on 'downloading' while another run is in flight
C25_Witness ==
    \E r, o \in Runs :
        /\ pc[r] = "done"
        /\ response[r] = Failure("model_downloading")
        /\ Running(o)

Starts(r) == pc[r] = "idle" /\ pc'[r] # "idle"

\* the step has run r fail with err and nothing else: no session, no
\* registration, no message
FailsFast(r, err) ==
    /\ pc'[r] = "done"
    /\ response'[r] = Failure(err)
    /\ session'[r] = Null
    /\ ~dlOpen'[r]
    /\ \A s \in DOMAIN activeSessions' : activeSessions'[s] # r
    /\ msgs' = msgs
    /\ blindSend' = blindSend

\* C27: in every run (handlePromptAPI and generateAISuggestions) a provider
\* session is created only after the availability has been queried in that
\* run; when the capability is absent or the availability is 'unavailable'
\* the promptAPI run fails fast, without the parameters query, a session, a
\* registration or a message.
C27_AvailabilityFirst ==
    [][/\ \A r \in Runs :
            /\ (session'[r] # session[r] \/ (dlOpen'[r] /\ ~dlOpen[r]))
                  => availabilityCalls[r] > 0
            /\ Availability(r, "unavailable") => FailsFast(r, "model_not_available")
            /\ (Starts(r) /\ ~hasLanguageModel) =>
                  (FailsFast(r, "api_not_available") /\ availabilityCalls'[r] = 0)
       /\ \A q \in Calls :
            call'[q].sessions > call[q].sessions => call[q].availabilityCalls > 0]_vars

\* a promptAPI run that failed on 'unavailable' and a suggestion run that
\* holds a provider session
C27_Witness ==
    /\ pc[1] = "done"
    /\ response[1] = Failure("model_not_available")
    /\ call[1].pc = "gen_prompt"
    /\ call[1].sessions = 1

\* C28: for each of temperature and topK that is requested the validated
\* value v lies in the declared range (by default [0, 2] and [1, 8]), is the
\* requested value when that is in range and the nearest bound otherwise;
\* validating the validated values returns them unchanged.
C28_Clamped ==
    validation.pc # "idle" =>
        /\ \A name \in {"temperature", "topK"} :
              LET req == validation.requestedParams[name]
                  dec == validation.apiParams[name]
                  out == validation.validated[name]
                  lo == IF dec.min # << >> THEN dec.min[1]
                        ELSE IF name = "temperature" THEN 0 ELSE 1
                  hi == IF dec.max # << >> THEN dec.max[1]
                        ELSE IF name = "temperature" THEN 20 ELSE 8
              IN  IF req = << >> THEN out = << >>
                  ELSE /\ Len(out) = 1
                       /\ lo <= out[1] /\ out[1] <= hi
                       /\ (lo <= req[1] /\ req[1] <= hi) => out[1] = req[1]
                       /\ req[1] < lo => out[1] = lo
                       /\ req[1] > hi => out[1] = hi
        /\ validation.pc = "revalidated" => validation.again = validation.validated

\* a temperature above the default range and a topK below it, validated twice
C28_Witness ==
    /\ validation.pc = "revalidated"
    /\ validation.apiParams.temperature.max = << >>
    /\ validation.requestedParams.temperature = <<24>>
    /\ validation.validated.temperature = <<20>>
    /\ validation.requestedParams.topK = <<0>>
    /\ validation.validated.topK = <<1>>

\* C29: within one run session.prompt is called at most once and only after
\* the streaming call or the iteration raised an error; when it succeeds its
\* result is what the run returns, and when it fails the run fails with its
\* error.
C29_FallbackOnce ==
    [][\A r \in Runs :
          /\ (pc[r] # "fallback" /\ pc'[r] = "fallback") =>
                (StreamError(r) \/ CreateSession(r, TRUE, FALSE))
          /\ (pc[r] = "fallback" /\ pc'[r] # "fallback") => pc'[r] = "done"
          /\ \A text \in PromptTexts :
                /\ FallbackPrompt(r, TRUE, text) =>
                      (pc'[r] = "done" /\ response'[r] = Success(text))
                /\ FallbackPrompt(r, FALSE, text) =>
                      (pc'[r] = "done" /\ response'[r] = Failure("prompt_failed"))]_vars

\* a run whose stream broke after a chunk and whose fallback call failed
C29_Witness ==
    \E r \in Runs :
        /\ pc[r] = "done"
        /\ emitted[r] # << >>
        /\ response[r] = Failure("prompt_failed")

\* C30: every probe and every delivery attempt resolves once with a boolean
\* and never stays pending: a pending promise has its timer running and
\* settles; the value is true only if a successful response came before the
\* timer fired, false on a transport error or when the timer fired first,
\* and nothing changes a value once given.
C30_ResolvesOnce ==
    /\ [](\A a \in Attempts :
            /\ (attempt[a].kind # "none" /\ attempt[a].verdict = "pending")
                  => attempt[a].timer = "armed"
            /\ attempt[a].verdict = "true" =>
                  (attempt[a].reply \in {"ready", "ok"} /\ ~attempt[a].late)
            /\ attempt[a].reply \in {"lastError", "threw"} => attempt[a].verdict = "false"
            /\ attempt[a].timer = "fired" => attempt[a].verdict = "false")
    /\ [][\A a \in Attempts :
            attempt[a].verdict # "pending" => attempt'[a].verdict = attempt[a].verdict]_vars
    /\ \A a \in Attempts :
            (attempt[a].kind # "none") ~> (attempt[a].verdict # "pending")

\* a probe whose answer came after its timer had fired, and a delivery
\* attempt the popup acknowledged in time
C30_Witness ==
    \E a, b \in Attempts :
        /\ attempt[a].kind = "ping"
        /\ attempt[a].reply = "ready"
        /\ attempt[a].late
        /\ attempt[a].resolves = 2
        /\ attempt[a].verdict = "false"
        /\ attempt[b].kind = "send"
        /\ attempt[b].verdict = "true"

\* the category message the cause of a failure calls for
CategoryMessage(cause, raw) ==
    IF cause \in {"absent", "unavailable"} THEN NotAvailableUserMessage
    ELSE IF cause = "downloading" THEN RetryLaterUserMessage
    ELSE IF cause \in {"download_error", "download_timeout", "download_create"}
         THEN DownloadFailedUserMessage
    ELSE raw

\* C31: the answer to a failed run is {success: false, error, originalError,
\* sessionId}: originalError is the raw message unchanged, and error is the
\* category message for the cause (not available; retry later; download
\* failed) and the raw message for every other cause.
C31_CategoryByCause ==
    \A k \in Replies :
        reply[k].cause # "none" =>
            /\ ~reply[k].success
            /\ reply[k].sessionId = reply[k].requested
            /\ reply[k].originalError = reply[k].raised
            /\ reply[k].error = CategoryMessage(reply[k].cause, reply[k].raised)

\* C32: extractPageContent returns cleaned content of at most 2000
\* characters unchanged, and for longer content its first 2000 characters
\* followed by '...'.
C32_TruncatedWithEllipsis ==
    extraction.pc = "done" =>
        IF Len(extraction.cleaned) <= ContentLimit
        THEN extraction.content = extraction.cleaned
        ELSE /\ Len(extraction.content) = ContentLimit + 3
             /\ \A i \in 1..ContentLimit : extraction.content[i] = extraction.cleaned[i]
             /\ \A i \in 1..3 : extraction.content[ContentLimit + i] = 46

\* a text one character over the limit was cut
C32_Witness ==
    /\ extraction.pc = "done"
    /\ Len(extraction.cleaned) = ContentLimit + 1
    /\ Len(extraction.content) = ContentLimit + 3

\* C33: when a run returns text successfully, every fullResponse it
\* delivered in a streamingResponse message is a prefix of the returned text.
C33_StreamedIsPrefix ==
    \A r \in Runs :
        (Done(r) /\ response[r] # << >> /\ response[r].success) =>
            \A i \in 1..Len(RunMsgs(r)) :
                IsPrefix(RunMsgs(r)[i].fullResponse, response[r].response)

\* C36: no provider operation is invoked on a session handle after destroy
\* was invoked on it: promptStreaming (the step from "create" to "stream")
\* and the fallback prompt (the step into "fallback") find it not destroyed.
C36_NoUseAfterDestroy ==
    [][\A r \in Runs :
          /\ (pc[r] = "create" /\ pc'[r] \in {"stream", "fallback"}) =>
                destroyed'[r] = 0
          /\ (pc[r] # "fallback" /\ pc'[r] = "fallback") => destroyed[r] = 0]_vars

\* C37: a run breaks out of its stream only if cancelSession(id) with its id
\* returned true since the id was last registered; no other run's
\* completion, failure or teardown makes it stop.
C37_StopsOnlyOnCancel ==
    [][\A r \in Runs :
          (pc[r] = "stream" /\ pc'[r] = "done" /\ outcome'[r] = "cancelled") =>
              sid[r] \in cancelledIds]_vars

\* C34: a cleanup tick that finds more than 30 entries removes exactly the
\* 10 earliest-inserted ones and keeps the others in their order; a tick
\* that finds 30 or fewer leaves the cache unchanged.
C34_TickRemovesEarliest ==
    [][CleanupTick =>
          IF Len(suggestionCache) > CleanupThreshold
          THEN /\ Len(suggestionCache') = Len(suggestionCache) - CleanupBatch
               /\ \A i \in 1..Len(suggestionCache') :
                     suggestionCache'[i] = suggestionCache[i + CleanupBatch]
          ELSE suggestionCache' = suggestionCache]_vars

\* a tick has found the cache over the threshold: the entry of a finished
\* request is gone without an eviction, and later entries are still there
C34_Witness ==
    /\ Len(suggestionCache) = CleanupThreshold + 1 - CleanupBatch
    /\ \E q \in Calls :
          /\ call[q].pc = "done" /\ call[q].served = "model"
          /\ call[q].evicted = {}
          /\ ~CacheHas(suggestionCache, call[q].contentHash)

\* C35: a getPageContent response has aiGenerated true only if its
\* suggestions were parsed from a generation or read from the cache; a
\* response with the fixed fallback triple has aiGenerated false or absent.
C35_AiGeneratedOnlyFromModel ==
    \A q \in Calls :
        call[q].pc = "done" =>
            /\ call[q].response.aiGenerated => call[q].served \in {"model", "cache"}
            /\ call[q].response.suggestions = FallbackSuggestions =>
                   ~call[q].response.aiGenerated

\* C38: cancelSession(id) invoked while the run for id is checking
\* availability, downloading the model or creating its session returns false
\* and changes no state, so the run goes on to register, stream and deliver
\* its chunks.
C38_EarlyCancelIsLost ==
    [][\A s \in SessionIds, t \in BOOLEAN :
          (/\ CancelObserved(s, t)
           /\ \E r \in Runs : sid[r] = s /\ pc[r] \in PreRegistration
           /\ \A r \in Runs : (sid[r] = s /\ Running(r)) => pc[r] \in PreRegistration)
          => /\ ~lastCancel'
             /\ UNCHANGED <<activeSessions, destroyed, pc, session, response, msgs,
                            outcome, fullResponse, emitted, cancelledRun, cancelledIds,
                            activeConnections>>]_vars

\* a run whose id was cancelled before it registered has streamed to the end
\* and delivered every chunk
C38_Witness ==
    \E r \in Runs :
        /\ earlyCancel[r]
        /\ outcome[r] = "completed"
        /\ Len(emitted[r]) = MaxChunks
        /\ Len(RunMsgs(r)) = MaxChunks
        /\ response[r] = Success(RunMsgs(r)[MaxChunks].fullResponse)

\* C39: an entry of contentScriptStatus records the url of the page now
\* loaded in its tab, and a closed tab has no entry.
C39_StatusMatchesTab ==
    \A t \in Tabs :
        MapHas(contentScriptStatus, t) =>
            /\ TabOpen(t)
            /\ contentScriptStatus[t].url = tabUrl[t]

\* C40: every getPageContent request and every promptAPI request receives
\* exactly one response on every path: the handler ends only by calling
\* sendResponse, calls it only as it ends, and does end when the callbacks
\* it waits on are invoked.
C40_ExactlyOneResponse ==
    /\ [](\A q \in Calls : call[q].pc = "done" <=> call[q].response # NoResponse)
    /\ [](\A r \in Runs : pc[r] = "done" <=> response[r] # << >>)
    /\ [][\A q \in Calls :
            call'[q].response # call[q].response =>
                \/ call[q].pc \notin {"idle", "done"} /\ call'[q].pc = "done"
                \/ call[q].pc = "done" /\ call'[q] = [IdleCall EXCEPT !.pc = "query"]]_vars
    /\ [][\A r \in Runs :
            response'[r] # response[r] => response[r] = << >> /\ pc'[r] = "done"]_vars
    /\ \A q \in Calls : call[q].pc = "query" ~> call[q].pc = "done"
    /\ \A r \in Runs : Running(r) ~> pc[r] = "done"

\* a getPageContent request was answered with the fallback after an
\* extraction that failed in transport, and the promptAPI request with a
\* failure
C40_Witness ==
    /\ call[1].pc = "done" /\ call[1].why = "transport"
    /\ call[1].response = GetFallbackPageInfo(TRUE)
    /\ pc[1] = "done" /\ ~response[1].success
====
